---- MODULE Spec2Model ----
(***************************************************************************)
(* Turn-processing protocol of the news assistant:                         *)
(*   router.chat -> presenter.chat | QA.chat                               *)
(* One turn is a generator that walks through backend calls (decide,       *)
(* evaluate, re-decide), tool executions and a streamed synthesis.  Each   *)
(* backend call is split into the request being issued and its reply       *)
(* arriving; every reply may instead be a raised failure.                  *)
(*                                                                         *)
(* Python values are represented as follows:                               *)
(*   None             the empty tuple <<>>                                 *)
(*   Optional[T]      None, or <<v>> for a present value v                 *)
(*   str (prompts)    a sequence of parts; + is \o                         *)
(*   str (stream)     a sequence of characters                             *)
(*   dict             a function (record) from keys to values; an          *)
(*                    insertion-ordered dict that is iterated is a         *)
(*                    sequence of [key, value] items                       *)
(*   list             a sequence                                           *)
(***************************************************************************)
EXTENDS Integers, Sequences, FiniteSets, TLC

\* ---------------------------------------------------------------- bounds
MaxCalls  == 2      \* tool calls in one Decision
MaxChunks == 3      \* chunks of one synthesis stream

\* ------------------------------------------------------- Python helpers
None == <<>>
Some(x) == <<x>>

\* truthiness of an Optional[list] / Optional[str]
Truthy(o) == o /= None /\ o[1] /= <<>>

\* dict.get(key, default)
GetOr(d, k, default) == IF k \in DOMAIN d THEN d[k] ELSE default

\* dict.get(key): the value, or Python's None (printed "None")
Arg(arguments, key) == GetOr(arguments, key, "None")

\* a literal piece of a string
Text(s) == [text |-> s]

\* f"{obj}": the printed representation of obj
Str(obj) == [repr |-> obj]

\* json.dumps(dict)
JsonDumps(d) == [json |-> d]

\* str.endswith
EndsWith(s, suffix) ==
    /\ Len(s) >= Len(suffix)
    /\ SubSeq(s, Len(s) - Len(suffix) + 1, Len(s)) = suffix

IsPrefix(s, t) == Len(s) <= Len(t) /\ SubSeq(t, 1, Len(s)) = s

\* --------------------------------------------------------------- inputs
Messages  == {"m1"}
Histories == { <<>>,
               << [role |-> "user", content |-> <<Text("h1")>>],
                  [role |-> "assistant", content |-> <<Text("h2")>>] >> }

\* the shapes (name, parsed JSON arguments) of a tool call in the reply to
\* a decide call of each agent; the last name is not implemented by it
QAShapes ==
    { [name |-> "visit_website",          arguments |-> [url |-> "free"]],
      [name |-> "visit_website",          arguments |-> [url |-> "paywalled"]],
      [name |-> "find_internet_articles", arguments |-> [query |-> "q"]],
      [name |-> "get_today_news",         arguments |-> <<>>] }

PresShapes ==
    { [name |-> "get_today_news",       arguments |-> <<>>],
      [name |-> "custom_domain_search", arguments |-> [domain |-> "fashion"]],
      [name |-> "visit_website",        arguments |-> [url |-> "free"]] }

\* tool calls whose JSON arguments are the empty object: the argument the
\* schema requires is missing
NoArgQAShapes ==
    { [name |-> n, arguments |-> <<>>] :
          n \in {"visit_website", "find_internet_articles"} }

NoArgPresShapes == { [name |-> "custom_domain_search", arguments |-> <<>>] }

\* tool_calls of a ChatCompletionMessage: ids are unique within a turn
\* (gen names the decide call that produced them)
ToolCallsOf(gen, shapes) ==
    [ i \in 1..Len(shapes) |->
        [ id |-> <<gen, i>>, name |-> shapes[i].name,
          arguments |-> shapes[i].arguments ] ]

\* the replies of a decide call: text only (tool_calls None or empty), or
\* one to MaxCalls tool calls
Decisions(gen, Shapes) ==
    { [role |-> "assistant", content |-> Some("reply"), tool_calls |-> tc] :
          tc \in {None, Some(<<>>)} }
    \cup
    { [role |-> "assistant", content |-> None,
       tool_calls |-> Some(ToolCallsOf(gen, sh))] :
          sh \in UNION { [1..n -> Shapes] : n \in 1..MaxCalls } }

\* message.parsed of the evaluator's reply (absent on a refusal)
Evaluations ==
    { Some([is_acceptable |-> a, feedback |-> "feedback"]) : a \in BOOLEAN }
    \cup {None}

\* message.content of the router model's reply: the two labels, the
\* Presenter's label in another case or with a trailing newline, an empty
\* string, or no content
RouterReplies == { Some("Presenter LLM"), Some("presenter llm"),
                   Some("Presenter LLM\n"), Some("Question_Answer LLM"),
                   Some(""), None }

\* the same, cut down to the two labels
FewRouterReplies == { Some("Presenter LLM"), Some("Question_Answer LLM") }

\* delta content of one stream chunk: absent, empty, or text
Deltas == { None, Some(<<>>), Some(<<"a">>), Some(<<"\n">>) }

\* the same, cut down to a newline (two of them make a paragraph break)
FewDeltas == { Some(<<"\n">>) }

\* one implemented tool per agent
FewQAShapes   == { sh \in QAShapes : sh.arguments = [url |-> "free"] }
FewPresShapes == { sh \in PresShapes : sh.name = "custom_domain_search" }

\* json.loads of the link-selection reply: a dict, with or without "links"
LinkReplies == { <<>>, [links |-> << [title |-> "t", url |-> "free"] >>] }

\* the same, with more shapes: no "links" key, an empty list, one link, two
\* links, a link without a title and a link without a URL
SearchReplies ==
    LinkReplies \cup
    { [links |-> <<>>],
      [links |-> << [title |-> "t1", url |-> "free"],
                    [title |-> "t2", url |-> "paywalled"] >>],
      [links |-> << [url |-> "free"] >>],
      [links |-> << [title |-> "t"] >>] }

\* Decisions of the Question-Answer agent that only search
SearchShapes == { sh \in QAShapes : sh.name = "find_internet_articles" }

\* router replies that select the Question-Answer agent
QARouterReplies == { r \in RouterReplies : r = Some("Question_Answer LLM") }

\* URLs the page fetch can succeed on (requests rejects anything that is
\* not a URL with MissingSchema, a RequestException)
FetchableURLs == { "free", "paywalled" }

\* ------------------------------------------------------------ constants
\* QA.PAYWALLED_SOURCES, as the URLs that belong to a source on the list
PAYWALLED_SOURCES == { "paywalled" }

QA_system_prompt        == <<Text("QA_system_prompt")>>
evaluator_system_prompt == <<Text("evaluator_system_prompt")>>
presenter_system_prompt == <<Text("presenter_system_prompt")>>
ROUTER_SYSTEM_PROMPT    == <<Text("ROUTER_SYSTEM_PROMPT")>>
QA_tools        == <<"visit_website", "find_internet_articles">>
presenter_tools == <<"get_today_news", "custom_domain_search">>
CATEGORIES == <<"Top headlines", "Business", "Tech", "AI", "Canada", "China">>

\* ---------------------------------------------------------------- state
VARIABLES
    pc,             \* position of the turn's generator
    decision,       \* router.chat: Optional[content of the router's reply]
    agent,          \* the specialist the router delegated to
    message,        \* argument of chat()
    history,        \* argument of chat()
    messages,       \* the per-turn message list of the specialist
    assistant_msg,  \* the Decision currently held by the specialist
    evaluation,     \* Optional[Evaluation] of this turn
    idx,            \* handle_tool_call: position in tool_calls
    results,        \* handle_tool_call: tool-role messages built so far
    partial,        \* streaming buffer
    nchunks,        \* chunks received on the stream so far
    deltas,         \* the delta content of each chunk received, in order
    yielded,        \* values the generator has yielded in this turn
    generated,      \* the text the stream has delivered so far, delta by delta
    inflight,       \* Optional[request] of the backend call not yet returned
    today_news,     \* presenter.today_news
    fetchers,       \* the news tool calls of turns running side by side
    caller,         \* what the consumer of the turn's generator is doing
    trace,          \* this turn's calls, in the order they were made
    probed          \* what this turn's probe Decision held: "nothing yet",
                    \* "text" (no tool calls) or "tool_calls"

vars == << pc, decision, agent, message, history, messages, assistant_msg, evaluation,
           idx, results, partial, nchunks, deltas, yielded, generated, inflight,
           today_news, fetchers, caller, trace, probed >>

\* the state every turn of the process shares
sharedVars == << today_news, fetchers >>
callVars   == << decision, agent, message, history >>
loopVars   == << idx, results >>
streamVars == << partial, nchunks, deltas, yielded, generated >>

NoId == <<"-", 0>>
Event(op, id) == [op |-> op, id |-> id]

\* a page fetch (requests.get and raise_for_status) and whether it succeeded
FetchEvent(id, url, ok) ==
    [op |-> "fetch", id |-> id, url |-> url, ok |-> ok /\ url \in FetchableURLs]

Msg(role, content) == [role |-> role, content |-> content]

Request(op, msgs, tools, stream) ==
    [op |-> op, messages |-> msgs, tools |-> tools, stream |-> stream]

\* positions of the trace at which op was called
At(op) == { i \in 1..Len(trace) : trace[i].op = op }

\* turns of one process that run side by side; a turn that is not inside a
\* news tool
Turns == { "t1", "t2" }
NoFetch == [ pc |-> "idle", urls |-> <<>>, i |-> 0, used |-> 0, out |-> <<>>,
             raced |-> FALSE ]

\* chat is a generator function: its body runs only while the consumer is
\* inside next(), and control goes back to the consumer at a yield, at the
\* return and when an exception leaves the body
Running == caller = "waiting"

\* (first, a variant for a body that keeps running after it has produced a
\* value, as a function that collects its values would)
Suspend_Eager ==
    caller' = IF pc' \in {"done", "failed"} THEN "holding" ELSE "waiting"

Suspend ==
    caller' = IF pc' \in {"done", "failed"} \/ Len(yielded') > Len(yielded)
              THEN "holding" ELSE "waiting"

\* what a Decision holds
Holds(msg) == IF Truthy(msg.tool_calls) THEN "tool_calls" ELSE "text"

Init ==
    /\ pc = "idle"
    /\ decision = None
    /\ agent = "none"
    /\ message = "m1"
    /\ history = <<>>
    /\ messages = <<>>
    /\ assistant_msg = None
    /\ evaluation = None
    /\ idx = 0
    /\ results = <<>>
    /\ partial = <<>>
    /\ nchunks = 0
    /\ deltas = <<>>
    /\ yielded = <<>>
    /\ generated = <<>>
    /\ inflight = None
    /\ today_news = <<>>
    /\ fetchers = [ t \in Turns |-> NoFetch ]
    /\ caller = "holding"
    /\ trace = <<>>
    /\ probed = "nothing yet"

\* the caller invokes chat(message, history) for a new turn
StartTurn ==
    /\ pc \in {"idle", "done", "failed"}
    /\ \E m \in Messages, h \in Histories :
          /\ message' = m
          /\ history' = h
    /\ pc' = "router"
    /\ decision' = None
    /\ agent' = "none"
    /\ messages' = <<>>
    /\ assistant_msg' = None
    /\ evaluation' = None
    /\ idx' = 0
    /\ results' = <<>>
    /\ partial' = <<>>
    /\ nchunks' = 0
    /\ deltas' = <<>>
    /\ yielded' = <<>>
    /\ generated' = <<>>
    /\ inflight' = None
    /\ trace' = <<>>
    /\ probed' = "nothing yet"
    /\ caller' = "holding"
    /\ UNCHANGED sharedVars

\* the consumer asks the generator for its next value: the body of chat runs
\* from where it was suspended (from its first statement, the first time)
CallerNext ==
    /\ caller = "holding"
    /\ pc \notin {"idle", "done", "failed"}
    /\ caller' = "waiting"
    /\ UNCHANGED << pc, callVars, messages, assistant_msg, evaluation, loopVars,
                    streamVars, inflight, sharedVars, trace, probed >>

\* the consumer drops the generator without asking for another value
Abandon ==
    /\ caller = "holding"
    /\ pc \notin {"idle", "done", "failed"}
    /\ caller' = "stopped"
    /\ UNCHANGED << pc, callVars, messages, assistant_msg, evaluation, loopVars,
                    streamVars, inflight, sharedVars, trace, probed >>

\* any backend call in flight may raise instead of returning (also while a
\* stream is being read); nothing in router.chat, presenter.chat or QA.chat
\* catches it (first, a variant in which the router falls back to the
\* Question-Answer agent when its own call raises, and a variant in which a
\* specialist issues its probe again when it raises)
CallRaises_RouterFallback ==
    /\ Running
    /\ inflight /= None
    /\ IF pc = "router_wait"
       THEN pc' = "qa_probe" /\ agent' = "QA"
       ELSE pc' = "failed" /\ agent' = agent
    /\ inflight' = None
    /\ trace' = Append(trace, Event("raised", NoId))
    /\ UNCHANGED << decision, message, history, messages, assistant_msg,
                    evaluation, loopVars, streamVars, sharedVars, probed >>
    /\ Suspend

CallRaises_RetryProbe ==
    /\ Running
    /\ inflight /= None
    /\ pc' = IF pc = "qa_probe_wait" /\ At("raised") = {} THEN "qa_probe"
             ELSE IF pc = "pres_probe_wait" /\ At("raised") = {} THEN "pres_probe"
             ELSE "failed"
    /\ inflight' = None
    /\ trace' = Append(trace, Event("raised", NoId))
    /\ UNCHANGED << callVars, messages, assistant_msg, evaluation, loopVars,
                    streamVars, sharedVars, probed >>
    /\ Suspend

CallRaises ==
    /\ Running
    /\ inflight /= None
    /\ pc' = "failed"
    /\ inflight' = None
    /\ trace' = Append(trace, Event("raised", NoId))
    /\ UNCHANGED << callVars, messages, assistant_msg, evaluation, loopVars,
                    streamVars, sharedVars, probed >>
    /\ Suspend

\* ---------------------------------------------------------------- router
\* router.chat: build the message list and issue the classification call
RouterCall ==
    /\ Running
    /\ pc = "router"
    /\ inflight' = Some(Request("router",
                        <<Msg("system", ROUTER_SYSTEM_PROMPT)>> \o history
                            \o <<Msg("user", <<Text(message)>>)>>,
                        None, FALSE))
    /\ trace' = Append(trace, Event("router", NoId))
    /\ pc' = "router_wait"
    /\ UNCHANGED << callVars, messages, assistant_msg, evaluation, loopVars,
                    streamVars, sharedVars, probed >>
    /\ Suspend

\* router.chat: compare the reply with the literal and delegate (first, a
\* variant that compares without regard to case)
RouterReturn_IgnoreCase(Replies) ==
    /\ Running
    /\ pc = "router_wait"
    /\ \E content \in Replies :
          /\ decision' = Some(content)
          /\ IF content \in {Some("Presenter LLM"), Some("presenter llm")}
             THEN agent' = "Presenter" /\ pc' = "pres_probe"
             ELSE agent' = "QA" /\ pc' = "qa_probe"
    /\ inflight' = None
    /\ UNCHANGED << message, history, messages, assistant_msg, evaluation,
                    loopVars, streamVars, sharedVars, trace, probed >>
    /\ Suspend

RouterReturn(Replies) ==
    /\ Running
    /\ pc = "router_wait"
    /\ \E content \in Replies :
          /\ decision' = Some(content)
          /\ IF content = Some("Presenter LLM")
             THEN agent' = "Presenter" /\ pc' = "pres_probe"
             ELSE agent' = "QA" /\ pc' = "qa_probe"
    /\ inflight' = None
    /\ UNCHANGED << message, history, messages, assistant_msg, evaluation,
                    loopVars, streamVars, sharedVars, trace, probed >>
    /\ Suspend

\* ------------------------------------------------- tool adapters of QA
\* Website.get_contents
get_contents(url) ==
    << Text("Webpage Title:\n"), [title |-> url],
       Text("\nWebpage Contents:\n"), [body |-> url], Text("\n\n") >>

\* QA.lookup_news: ok is whether requests.get and raise_for_status succeed
lookup_news(url, ok) ==
    IF ok /\ url \in FetchableURLs
    THEN get_contents(url)
    ELSE << Text("This website "), Str(url),
            Text(" cannot be fetched, possibly because it is paywalled.") >>

\* the for loop of find_internet_articles, from link i on (first, a variant
\* that leaves the loop at the first link whose page cannot be fetched)
RECURSIVE ArticleBlocks_StopAtFailure(_, _, _)
ArticleBlocks_StopAtFailure(links, oks, i) ==
    IF i > Len(links) THEN <<>>
    ELSE LET url == GetOr(links[i], "url", "No URL") IN
         IF ~ (oks[i] /\ url \in FetchableURLs) THEN <<>>
         ELSE << Text("Here is one relevant article\n"),
                 Text("Title of this article is: "),
                 Str(GetOr(links[i], "title", "No title")), Text("\n"),
                 Text("URL: "), Str(url), Text("\n") >>
              \o lookup_news(url, oks[i])
              \o << Text("--------------------------------------------------\n") >>
              \o ArticleBlocks_StopAtFailure(links, oks, i + 1)

RECURSIVE ArticleBlocks(_, _, _)
ArticleBlocks(links, oks, i) ==
    IF i > Len(links) THEN <<>>
    ELSE LET title == GetOr(links[i], "title", "No title")
             url   == GetOr(links[i], "url", "No URL")
         IN  << Text("Here is one relevant article\n"),
                Text("Title of this article is: "), Str(title), Text("\n"),
                Text("URL: "), Str(url), Text("\n") >>
             \o lookup_news(url, oks[i])
             \o << Text("--------------------------------------------------\n") >>
             \o ArticleBlocks(links, oks, i + 1)

\* QA.find_internet_articles, given the reply of get_links
find_internet_articles(query, news_data, oks) ==
    << Text("The user's question is: "), Str(query), Text("\n\n") >>
    \o ArticleBlocks(GetOr(news_data, "links", <<>>), oks, 1)

\* the link-selection call of get_links and the dict it returned
LinksEvent(id, news_data) == [op |-> "links", id |-> id, reply |-> news_data]

\* the calls one find_internet_articles makes, in order
SearchEvents(news_data, oks, id) ==
    LET links == GetOr(news_data, "links", <<>>) IN
    << Event("find_internet_articles", id), Event("search", id),
       LinksEvent(id, news_data) >>
    \o [ i \in 1..Len(links) |->
            FetchEvent(id, GetOr(links[i], "url", "No URL"), oks[i]) ]

\* ----------------------------------------------------------- QA.chat
_evaluator_user_prompt(reply, m, h) ==
    << Text("Here's the conversation between the User and the Agent: \n\n"),
       Str(h),
       Text("\n\nHere's the latest message from the User: \n\n"), Text(m),
       Text("\n\nHere's the latest response from the Agent: \n\n"), Str(reply),
       Text("\n\nPlease evaluate the response, replying with whether it is acceptable and your feedback.") >>

\* QA.evaluate: the structured evaluator call
evaluate(reply, m, h) ==
    Request("evaluate",
            << Msg("system", evaluator_system_prompt),
               Msg("user", _evaluator_user_prompt(reply, m, h)) >>,
            None, FALSE)

\* QA.rerun: the retried decide call (first, a variant that leaves the
\* evaluator's feedback out of the prompt)
rerun_NoFeedback(reply, m, h, feedback) ==
    Request("rerun",
            << Msg("system",
                   QA_system_prompt
                   \o << Text("\n\n## Previous answer rejected\nYou just tried to reply, but the quality control rejected your reply\n"),
                         Text("## Your attempted answer:\n"), Str(reply),
                         Text("\n\n") >>) >>
            \o h \o << Msg("user", <<Text(m)>>) >>,
            Some(QA_tools), FALSE)

rerun(reply, m, h, feedback) ==
    Request("rerun",
            << Msg("system",
                   QA_system_prompt
                   \o << Text("\n\n## Previous answer rejected\nYou just tried to reply, but the quality control rejected your reply\n"),
                         Text("## Your attempted answer:\n"), Str(reply),
                         Text("\n\n"),
                         Text("## Reason for rejection:\n"), Text(feedback),
                         Text("\n\n") >>) >>
            \o h \o << Msg("user", <<Text(m)>>) >>,
            Some(QA_tools), FALSE)

\* QA.chat: build messages and issue the probe
QAProbeCall ==
    /\ Running
    /\ pc = "qa_probe"
    /\ messages' = <<Msg("system", QA_system_prompt)>> \o history
                       \o <<Msg("user", <<Text(message)>>)>>
    /\ inflight' = Some(Request("probe", messages', Some(QA_tools), FALSE))
    /\ trace' = Append(trace, Event("probe", NoId))
    /\ pc' = "qa_probe_wait"
    /\ UNCHANGED << callVars, assistant_msg, evaluation, loopVars, streamVars,
                    sharedVars, probed >>
    /\ Suspend

\* QA.chat: the probe returns; branch on getattr(assistant_msg, "tool_calls")
\* (first, a variant that evaluates every Decision and a variant that
\* evaluates none)
QAProbeReturn_AlwaysEvaluate(Shapes) ==
    /\ Running
    /\ pc = "qa_probe_wait"
    /\ \E d \in Decisions("probe", Shapes) :
          /\ assistant_msg' = d
          /\ probed' = Holds(d)
          /\ pc' = "qa_evaluate"
    /\ inflight' = None
    /\ UNCHANGED << callVars, messages, evaluation, loopVars, streamVars,
                    sharedVars, trace >>
    /\ Suspend

QAProbeReturn_NoEvaluate(Shapes) ==
    /\ Running
    /\ pc = "qa_probe_wait"
    /\ \E d \in Decisions("probe", Shapes) :
          /\ assistant_msg' = d
          /\ probed' = Holds(d)
          /\ pc' = IF Truthy(d.tool_calls) THEN "qa_handle" ELSE "qa_notool"
    /\ inflight' = None
    /\ UNCHANGED << callVars, messages, evaluation, loopVars, streamVars,
                    sharedVars, trace >>
    /\ Suspend

QAProbeReturn(Shapes) ==
    /\ Running
    /\ pc = "qa_probe_wait"
    /\ \E d \in Decisions("probe", Shapes) :
          /\ assistant_msg' = d
          /\ probed' = Holds(d)
          /\ pc' = IF Truthy(d.tool_calls) THEN "qa_evaluate" ELSE "qa_notool"
    /\ inflight' = None
    /\ UNCHANGED << callVars, messages, evaluation, loopVars, streamVars,
                    sharedVars, trace >>
    /\ Suspend

\* QA.evaluate: issue the structured evaluator call
QAEvaluateCall ==
    /\ Running
    /\ pc = "qa_evaluate"
    /\ inflight' = Some(evaluate(assistant_msg, message, history))
    /\ trace' = Append(trace, Event("evaluate", NoId))
    /\ pc' = "qa_evaluate_wait"
    /\ UNCHANGED << callVars, messages, assistant_msg, evaluation, loopVars,
                    streamVars, sharedVars, probed >>
    /\ Suspend

\* QA.evaluate returns message.parsed; QA.chat reads evaluation.is_acceptable
\* (an AttributeError when parsed is None); first, a variant that retries
\* whatever the verdict
QAEvaluateReturn_AlwaysRerun ==
    /\ Running
    /\ pc = "qa_evaluate_wait"
    /\ \E e \in Evaluations :
          /\ evaluation' = e
          /\ pc' = IF e = None THEN "failed" ELSE "qa_rerun"
    /\ inflight' = None
    /\ UNCHANGED << callVars, messages, assistant_msg, loopVars, streamVars,
                    sharedVars, trace, probed >>
    /\ Suspend

QAEvaluateReturn ==
    /\ Running
    /\ pc = "qa_evaluate_wait"
    /\ \E e \in Evaluations :
          /\ evaluation' = e
          /\ pc' = IF e = None THEN "failed"
                   ELSE IF e[1].is_acceptable THEN "qa_handle" ELSE "qa_rerun"
    /\ inflight' = None
    /\ UNCHANGED << callVars, messages, assistant_msg, loopVars, streamVars,
                    sharedVars, trace, probed >>
    /\ Suspend

\* QA.rerun: issue the retried decide call (first, a variant in which rerun
\* writes its augmented system prompt into the turn's message list)
QARerunCall_SharedPrompt ==
    /\ Running
    /\ pc = "qa_rerun"
    /\ inflight' = Some(rerun(assistant_msg, message, history,
                             evaluation[1].feedback))
    /\ messages' = [messages EXCEPT ![1] = inflight'[1].messages[1]]
    /\ trace' = Append(trace, Event("rerun", NoId))
    /\ pc' = "qa_rerun_wait"
    /\ UNCHANGED << callVars, assistant_msg, evaluation, loopVars,
                    streamVars, sharedVars, probed >>
    /\ Suspend

QARerunCall ==
    /\ Running
    /\ pc = "qa_rerun"
    /\ inflight' = Some(rerun(assistant_msg, message, history,
                             evaluation[1].feedback))
    /\ trace' = Append(trace, Event("rerun", NoId))
    /\ pc' = "qa_rerun_wait"
    /\ UNCHANGED << callVars, messages, assistant_msg, evaluation, loopVars,
                    streamVars, sharedVars, probed >>
    /\ Suspend

\* QA.chat: the retried Decision replaces assistant_msg and goes to execution
\* (first, a variant that sends it back to the evaluator)
QARerunReturn_Reevaluate(Shapes) ==
    /\ Running
    /\ pc = "qa_rerun_wait"
    /\ \E d \in Decisions("rerun", Shapes) : assistant_msg' = d
    /\ pc' = "qa_evaluate"
    /\ inflight' = None
    /\ UNCHANGED << callVars, messages, evaluation, loopVars, streamVars,
                    sharedVars, trace, probed >>
    /\ Suspend

\* (and a variant that drops the retried Decision and goes on with the
\* rejected one)
QARerunReturn_KeepProbe(Shapes) ==
    /\ Running
    /\ pc = "qa_rerun_wait"
    /\ \E d \in Decisions("rerun", Shapes) : assistant_msg' = assistant_msg
    /\ pc' = "qa_handle"
    /\ inflight' = None
    /\ UNCHANGED << callVars, messages, evaluation, loopVars, streamVars,
                    sharedVars, trace, probed >>
    /\ Suspend

QARerunReturn(Shapes) ==
    /\ Running
    /\ pc = "qa_rerun_wait"
    /\ \E d \in Decisions("rerun", Shapes) : assistant_msg' = d
    /\ pc' = "qa_handle"
    /\ inflight' = None
    /\ UNCHANGED << callVars, messages, evaluation, loopVars, streamVars,
                    sharedVars, trace, probed >>
    /\ Suspend

\* --------------------------------------------- QA.handle_tool_call
\* the tool call the for loop is at (first, a variant that walks the list
\* from its end)
ToolCall_Reversed ==
    assistant_msg.tool_calls[1][Len(assistant_msg.tool_calls[1]) - idx + 1]

ToolCall == assistant_msg.tool_calls[1][idx]

\* the loop has a tool call left
InLoop(at) == pc = at /\ idx <= Len(assistant_msg.tool_calls[1])

\* the names the if/elif chain of QA.handle_tool_call dispatches on
QAToolNames == {"visit_website", "find_internet_articles"}

\* the tool-role message built for a tool call (first, a variant that keys
\* every message by the Decision's first tool call)
QAToolResponse_FirstId(tool_call, payload) ==
    [ role |-> "tool", content |-> JsonDumps(payload),
      tool_call_id |-> assistant_msg.tool_calls[1][1].id ]

QAToolResponse(tool_call, payload) ==
    [ role |-> "tool", content |-> JsonDumps(payload),
      tool_call_id |-> tool_call.id ]

\* enter the for loop over message.tool_calls (iterating None raises
\* TypeError, which nothing catches)
QAHandleToolCall ==
    /\ Running
    /\ pc = "qa_handle"
    /\ IF assistant_msg.tool_calls = None
       THEN pc' = "failed" /\ UNCHANGED loopVars
       ELSE pc' = "qa_tools" /\ idx' = 1 /\ results' = <<>>
    /\ UNCHANGED << callVars, messages, assistant_msg, evaluation, streamVars,
                    inflight, sharedVars, trace, probed >>
    /\ Suspend

\* one iteration, tool_call.function.name == "visit_website" (first, a
\* variant of lookup_news without the except clause: a failed fetch raises)
QAVisitWebsite_Raises ==
    /\ Running
    /\ InLoop("qa_tools")
    /\ ToolCall.name = "visit_website"
    /\ \E ok \in BOOLEAN :
          LET url         == Arg(ToolCall.arguments, "url")
              web_content == lookup_news(url, ok)
          IN  /\ trace' = trace \o << Event("visit_website", ToolCall.id),
                                       FetchEvent(ToolCall.id, url, ok) >>
              /\ IF ok /\ url \in FetchableURLs
                 THEN /\ results' = Append(results, QAToolResponse(ToolCall,
                                 [url |-> url, web_content |-> web_content]))
                      /\ idx' = idx + 1
                      /\ pc' = pc
                 ELSE pc' = "failed" /\ UNCHANGED loopVars
    /\ UNCHANGED << callVars, messages, assistant_msg, evaluation,
                    streamVars, inflight, sharedVars, probed >>
    /\ Suspend

QAVisitWebsite ==
    /\ Running
    /\ InLoop("qa_tools")
    /\ ToolCall.name = "visit_website"
    /\ \E ok \in BOOLEAN :
          LET url         == Arg(ToolCall.arguments, "url")
              web_content == lookup_news(url, ok)
          IN  /\ results' = Append(results, QAToolResponse(ToolCall,
                                 [url |-> url, web_content |-> web_content]))
              /\ trace' = trace \o << Event("visit_website", ToolCall.id),
                                       FetchEvent(ToolCall.id, url, ok) >>
    /\ idx' = idx + 1
    /\ UNCHANGED << pc, callVars, messages, assistant_msg, evaluation,
                    streamVars, inflight, sharedVars, probed >>
    /\ Suspend

\* one iteration, tool_call.function.name == "find_internet_articles" (first,
\* a variant that visits the first link of the reply only)
QAFindInternetArticles_FirstLinkOnly(Replies) ==
    /\ Running
    /\ InLoop("qa_tools")
    /\ ToolCall.name = "find_internet_articles"
    /\ \E news_data \in Replies :
       \E oks \in [1..Len(GetOr(news_data, "links", <<>>)) -> BOOLEAN] :
          LET query == Arg(ToolCall.arguments, "query")
              all   == GetOr(news_data, "links", <<>>)
              first == [links |-> SubSeq(all, 1, IF all = <<>> THEN 0 ELSE 1)]
              search_results == find_internet_articles(query, first, oks)
          IN  /\ results' = Append(results, QAToolResponse(ToolCall,
                                 [query |-> query,
                                  search_results |-> search_results]))
              /\ trace' = trace
                    \o << Event("find_internet_articles", ToolCall.id),
                          Event("search", ToolCall.id),
                          LinksEvent(ToolCall.id, news_data) >>
                    \o SubSeq(SearchEvents(first, oks, ToolCall.id), 4,
                              3 + Len(first.links))
    /\ idx' = idx + 1
    /\ UNCHANGED << pc, callVars, messages, assistant_msg, evaluation,
                    streamVars, inflight, sharedVars, probed >>
    /\ Suspend

QAFindInternetArticles(Replies) ==
    /\ Running
    /\ InLoop("qa_tools")
    /\ ToolCall.name = "find_internet_articles"
    /\ \E news_data \in Replies :
       \E oks \in [1..Len(GetOr(news_data, "links", <<>>)) -> BOOLEAN] :
          LET query          == Arg(ToolCall.arguments, "query")
              search_results == find_internet_articles(query, news_data, oks)
          IN  /\ results' = Append(results, QAToolResponse(ToolCall,
                                 [query |-> query,
                                  search_results |-> search_results]))
              /\ trace' = trace \o SearchEvents(news_data, oks, ToolCall.id)
    /\ idx' = idx + 1
    /\ UNCHANGED << pc, callVars, messages, assistant_msg, evaluation,
                    streamVars, inflight, sharedVars, probed >>
    /\ Suspend

\* the search request or the link-selection call of get_links raises;
\* neither find_internet_articles nor handle_tool_call nor chat catches it
QAFindInternetArticlesRaises ==
    /\ Running
    /\ InLoop("qa_tools")
    /\ ToolCall.name = "find_internet_articles"
    /\ \E n \in 2..3 :
          trace' = trace
                   \o SubSeq(<< Event("find_internet_articles", ToolCall.id),
                                Event("search", ToolCall.id),
                                Event("links", ToolCall.id) >>, 1, n)
                   \o << Event("raised", ToolCall.id) >>
    /\ pc' = "failed"
    /\ UNCHANGED << callVars, messages, assistant_msg, evaluation, loopVars,
                    streamVars, inflight, sharedVars, probed >>
    /\ Suspend

\* one iteration, any other name: continue (first, a variant that answers
\* such a call with a placeholder result, and a variant that leaves the loop)
QASkipToolCall_Placeholder ==
    /\ Running
    /\ InLoop("qa_tools")
    /\ ToolCall.name \notin QAToolNames
    /\ results' = Append(results, QAToolResponse(ToolCall, <<>>))
    /\ idx' = idx + 1
    /\ UNCHANGED << pc, callVars, messages, assistant_msg, evaluation,
                    streamVars, inflight, sharedVars, trace, probed >>
    /\ Suspend

QASkipToolCall_Break ==
    /\ Running
    /\ InLoop("qa_tools")
    /\ ToolCall.name \notin QAToolNames
    /\ idx' = Len(assistant_msg.tool_calls[1]) + 1
    /\ UNCHANGED << pc, callVars, messages, assistant_msg, evaluation,
                    results, streamVars, inflight, sharedVars, trace,
                    probed >>
    /\ Suspend

QASkipToolCall ==
    /\ Running
    /\ InLoop("qa_tools")
    /\ ToolCall.name \notin QAToolNames
    /\ idx' = idx + 1
    /\ UNCHANGED << pc, callVars, messages, assistant_msg, evaluation,
                    results, streamVars, inflight, sharedVars, trace,
                    probed >>
    /\ Suspend

\* QA.chat: handle_tool_call returns; the Decision and its results are
\* appended to the per-turn list (first, a variant in which the per-turn
\* list is the caller's history list itself, so that the appends land in it)
QAHandleToolCallReturn_OnHistory ==
    /\ Running
    /\ pc = "qa_tools"
    /\ idx > Len(assistant_msg.tool_calls[1])
    /\ history' = Append(history, assistant_msg) \o results
    /\ messages' = Append(messages, assistant_msg) \o results
    /\ pc' = "qa_synth"
    /\ UNCHANGED << decision, agent, message, assistant_msg, evaluation,
                    loopVars, streamVars, inflight, sharedVars, trace,
                    probed >>
    /\ Suspend

\* (and a variant that goes back to the probe with the tool results, as an
\* agent loop would)
QAHandleToolCallReturn_ProbeAgain ==
    /\ Running
    /\ pc = "qa_tools"
    /\ idx > Len(assistant_msg.tool_calls[1])
    /\ messages' = Append(messages, assistant_msg) \o results
    /\ pc' = "qa_probe"
    /\ UNCHANGED << callVars, assistant_msg, evaluation, loopVars, streamVars,
                    inflight, sharedVars, trace, probed >>
    /\ Suspend

QAHandleToolCallReturn ==
    /\ Running
    /\ pc = "qa_tools"
    /\ idx > Len(assistant_msg.tool_calls[1])
    /\ messages' = Append(messages, assistant_msg) \o results
    /\ pc' = "qa_synth"
    /\ UNCHANGED << callVars, assistant_msg, evaluation, loopVars, streamVars,
                    inflight, sharedVars, trace, probed >>
    /\ Suspend

\* ------------------------------------------------------------ streaming
\* the body of `for chunk in stream`: the new buffer and the new list of
\* yielded values (first, a variant that empties the buffer at a flush and a
\* variant that tests for the paragraph break on every chunk)
StreamLoopBody_FlushAnyChunk(buf, out, delta) ==
    LET grown == IF Truthy(delta) THEN buf \o delta[1] ELSE buf IN
    IF EndsWith(grown, <<"\n", "\n">>)
    THEN [ partial |-> grown, yielded |-> Append(out, grown) ]
    ELSE [ partial |-> grown, yielded |-> out ]

StreamLoopBody_Reset(buf, out, delta) ==
    IF Truthy(delta)
    THEN LET grown == buf \o delta[1] IN
         IF EndsWith(grown, <<"\n", "\n">>)
         THEN [ partial |-> <<>>, yielded |-> Append(out, grown) ]
         ELSE [ partial |-> grown, yielded |-> out ]
    ELSE [ partial |-> buf, yielded |-> out ]

\* (and a variant that yields the buffer after every chunk)
StreamLoopBody_YieldEveryChunk(buf, out, delta) ==
    LET grown == IF Truthy(delta) THEN buf \o delta[1] ELSE buf IN
    [ partial |-> grown, yielded |-> Append(out, grown) ]

StreamLoopBody(buf, out, delta) ==
    IF Truthy(delta)
    THEN LET grown == buf \o delta[1] IN
         IF EndsWith(grown, <<"\n", "\n">>)
         THEN [ partial |-> grown, yielded |-> Append(out, grown) ]
         ELSE [ partial |-> grown, yielded |-> out ]
    ELSE [ partial |-> buf, yielded |-> out ]

\* `if partial: yield partial` after the loop (first, a variant that yields
\* whatever the buffer holds)
StreamTail_Always(buf, out) == Append(out, buf)

\* (and a variant that leaves out the last yield when the buffer has just
\* been yielded by a flush)
StreamTail_UnlessFlushed(buf, out) ==
    IF buf /= <<>> /\ (out = <<>> \/ out[Len(out)] /= buf)
    THEN Append(out, buf) ELSE out

StreamTail(buf, out) == IF buf /= <<>> THEN Append(out, buf) ELSE out

\* one chunk arrives on the open stream
ReceiveChunk(Contents) ==
    /\ nchunks < MaxChunks
    /\ \E delta \in Contents :
          LET r == StreamLoopBody(partial, yielded, delta) IN
              /\ partial' = r.partial
              /\ yielded' = r.yielded
              /\ generated' = generated \o (IF delta = None THEN <<>> ELSE delta[1])
              /\ deltas' = Append(deltas, delta)
    /\ nchunks' = nchunks + 1
    /\ UNCHANGED << pc, callVars, messages, assistant_msg, evaluation,
                    loopVars, inflight, sharedVars, trace, probed >>

\* the stream is exhausted: the last yield, and the generator returns
EndOfStream ==
    /\ yielded' = StreamTail(partial, yielded)
    /\ inflight' = None
    /\ pc' = "done"
    /\ UNCHANGED << callVars, messages, assistant_msg, evaluation, loopVars,
                    partial, nchunks, deltas, generated, sharedVars, trace,
                    probed >>

\* the streaming generate call is issued over msgs
OpenStream(msgs) ==
    /\ inflight' = Some(Request("synth", msgs, None, TRUE))
    /\ trace' = Append(trace, Event("synth", NoId))
    /\ partial' = <<>>
    /\ generated' = <<>>
    /\ UNCHANGED << callVars, messages, assistant_msg, evaluation, loopVars,
                    nchunks, deltas, yielded, sharedVars, probed >>

\* QA.chat, tool path: synthesis over messages + the terminal instruction
\* (first, a variant that puts the instruction in front of the list)
QASynthCall_InstructionFirst ==
    /\ Running
    /\ pc = "qa_synth"
    /\ OpenStream(<< Msg("system",
           <<Text("Use the tool result to craft the answer in your Cleo Abram style.")>>) >>
           \o messages)
    /\ pc' = "qa_stream"
    /\ Suspend

QASynthCall ==
    /\ Running
    /\ pc = "qa_synth"
    /\ OpenStream(Append(messages, Msg("system",
           <<Text("Use the tool result to craft the answer in your Cleo Abram style.")>>)))
    /\ pc' = "qa_stream"
    /\ Suspend

QAStreamChunk(Contents) ==
    /\ Running
    /\ pc = "qa_stream"
    /\ ReceiveChunk(Contents)
    /\ Suspend

QAStreamEnd ==
    /\ Running
    /\ pc = "qa_stream"
    /\ EndOfStream
    /\ Suspend

\* QA.chat, no-tool path: the streaming call over messages (first, a variant
\* that appends the tool path's terminal instruction here too)
QANoToolCall_WithInstruction ==
    /\ Running
    /\ pc = "qa_notool"
    /\ OpenStream(Append(messages, Msg("system",
           <<Text("Use the tool result to craft the answer in your Cleo Abram style.")>>)))
    /\ pc' = "qa_notool_stream"
    /\ Suspend

QANoToolCall ==
    /\ Running
    /\ pc = "qa_notool"
    /\ OpenStream(messages)
    /\ pc' = "qa_notool_stream"
    /\ Suspend

QANoToolStreamChunk(Contents) ==
    /\ Running
    /\ pc = "qa_notool_stream"
    /\ ReceiveChunk(Contents)
    /\ Suspend

QANoToolStreamEnd ==
    /\ Running
    /\ pc = "qa_notool_stream"
    /\ EndOfStream
    /\ Suspend

\* ------------------------------------------------------------ presenter
\* dict[key] = value on an insertion-ordered dict
DictSet(d, k, v) ==
    IF \E i \in 1..Len(d) : d[i].key = k
    THEN [ i \in 1..Len(d) |-> IF d[i].key = k THEN [key |-> k, value |-> v]
                                               ELSE d[i] ]
    ELSE Append(d, [key |-> k, value |-> v])

\* extract_news: today_news.clear(), then the first n iterations of the
\* loop over urls (the listing fetched for a category is named after it);
\* first, a variant without the clear()
RECURSIVE extract_news_NoClear(_, _)
extract_news_NoClear(urls, n) ==
    IF n = 0 THEN today_news
    ELSE DictSet(extract_news_NoClear(urls, n - 1), urls[n],
                 [articles |-> urls[n]])

RECURSIVE extract_news(_, _)
extract_news(urls, n) ==
    IF n = 0 THEN <<>>
    ELSE DictSet(extract_news(urls, n - 1), urls[n], [articles |-> urls[n]])

\* the loop over today_news.items() of get_today_news / custom_domain_search
RECURSIVE all_contents(_)
all_contents(d) ==
    IF d = <<>> THEN <<>>
    ELSE << Text("Category:"), Text(Head(d).key), Text("\n"),
            JsonDumps(Head(d).value), Text("\n\n\n") >>
         \o all_contents(Tail(d))

\* the names the if/elif chain of presenter.handle_tool_call dispatches on
PresToolNames == {"get_today_news", "custom_domain_search"}

\* the tool-role message built for a tool call
PresToolResponse(tool_call, payload) ==
    [ role |-> "tool", content |-> JsonDumps(payload),
      tool_call_id |-> tool_call.id ]

\* presenter.chat: build messages and issue the probe
PresProbeCall ==
    /\ Running
    /\ pc = "pres_probe"
    /\ messages' = <<Msg("system", presenter_system_prompt)>> \o history
                       \o <<Msg("user", <<Text(message)>>)>>
    /\ inflight' = Some(Request("probe", messages', Some(presenter_tools), FALSE))
    /\ trace' = Append(trace, Event("probe", NoId))
    /\ pc' = "pres_probe_wait"
    /\ UNCHANGED << callVars, assistant_msg, evaluation, loopVars, streamVars,
                    sharedVars, probed >>
    /\ Suspend

\* presenter.chat: the probe returns; branch on tool_calls (first, a variant
\* that hands a Decision with tool calls to the evaluator, as QA.chat does)
PresProbeReturn_Evaluate(Shapes) ==
    /\ Running
    /\ pc = "pres_probe_wait"
    /\ \E d \in Decisions("probe", Shapes) :
          /\ assistant_msg' = d
          /\ probed' = Holds(d)
          /\ pc' = IF Truthy(d.tool_calls) THEN "qa_evaluate" ELSE "pres_notool"
    /\ inflight' = None
    /\ UNCHANGED << callVars, messages, evaluation, loopVars, streamVars,
                    sharedVars, trace >>
    /\ Suspend

PresProbeReturn(Shapes) ==
    /\ Running
    /\ pc = "pres_probe_wait"
    /\ \E d \in Decisions("probe", Shapes) :
          /\ assistant_msg' = d
          /\ probed' = Holds(d)
          /\ pc' = IF Truthy(d.tool_calls) THEN "pres_handle" ELSE "pres_notool"
    /\ inflight' = None
    /\ UNCHANGED << callVars, messages, evaluation, loopVars, streamVars,
                    sharedVars, trace >>
    /\ Suspend

\* presenter.handle_tool_call: enter the for loop over message.tool_calls
PresHandleToolCall ==
    /\ Running
    /\ pc = "pres_handle"
    /\ IF assistant_msg.tool_calls = None
       THEN pc' = "failed" /\ UNCHANGED loopVars
       ELSE pc' = "pres_tools" /\ idx' = 1 /\ results' = <<>>
    /\ UNCHANGED << callVars, messages, assistant_msg, evaluation, streamVars,
                    inflight, sharedVars, trace, probed >>
    /\ Suspend

\* the dict that is dumped as the content of a tool's result
PresPayload(tool_call, summary) ==
    IF tool_call.name = "get_today_news"
    THEN [summary |-> summary]
    ELSE [Domain_name |-> Arg(tool_call.arguments, "domain"),
          summary |-> summary]

\* a listing fetch of extract_news (requests.get(url) and response.json())
\* and whether it succeeded
ListingEvent(id, category, ok) ==
    [op |-> "listing", id |-> id, category |-> category, ok |-> ok]

\* the listing fetches of an extract_news whose first n succeed
ListingEvents(id, urls, n) ==
    [ i \in 1..(IF n < Len(urls) THEN n + 1 ELSE n) |->
        ListingEvent(id, urls[i], i <= n) ]

\* extract_news followed by the listing loop: all fetches succeed and the
\* tool's result is appended, or fetch n + 1 raises and the turn is aborted
\* with the cache holding the first n categories (first, a variant of
\* extract_news that gives up on the first failing fetch without raising)
FetchNews_Soft(urls) ==
    /\ \E n \in 0..Len(urls) :
          /\ trace' = Append(trace, Event(ToolCall.name, ToolCall.id))
                          \o ListingEvents(ToolCall.id, urls, n)
          /\ today_news' = extract_news(urls, n)
          /\ results' = Append(results, PresToolResponse(ToolCall,
                             PresPayload(ToolCall, all_contents(today_news'))))
          /\ idx' = idx + 1
          /\ pc' = "pres_tools"
    /\ UNCHANGED << callVars, messages, assistant_msg, evaluation, streamVars,
                    inflight, fetchers, probed >>

\* (and a variant of extract_news that puts the previous contents back when
\* a fetch fails)
FetchNews_Restore(urls) ==
    /\ \E n \in 0..Len(urls) :
          /\ trace' = Append(trace, Event(ToolCall.name, ToolCall.id))
                          \o ListingEvents(ToolCall.id, urls, n)
          /\ IF n < Len(urls)
             THEN /\ today_news' = today_news
                  /\ pc' = "failed" /\ UNCHANGED loopVars
             ELSE /\ today_news' = extract_news(urls, n)
                  /\ results' = Append(results, PresToolResponse(ToolCall,
                             PresPayload(ToolCall, all_contents(today_news'))))
                  /\ idx' = idx + 1
                  /\ pc' = "pres_tools"
    /\ UNCHANGED << callVars, messages, assistant_msg, evaluation, streamVars,
                    inflight, fetchers, probed >>

FetchNews(urls) ==
    /\ \E n \in 0..Len(urls) :
          /\ trace' = Append(trace, Event(ToolCall.name, ToolCall.id))
                          \o ListingEvents(ToolCall.id, urls, n)
          /\ today_news' = extract_news(urls, n)
          /\ IF n < Len(urls)
             THEN pc' = "failed" /\ UNCHANGED loopVars
             ELSE /\ results' = Append(results, PresToolResponse(ToolCall,
                             PresPayload(ToolCall, all_contents(today_news'))))
                  /\ idx' = idx + 1
                  /\ pc' = "pres_tools"
    /\ UNCHANGED << callVars, messages, assistant_msg, evaluation, streamVars,
                    inflight, fetchers, probed >>

\* one iteration, tool_call.function.name == "get_today_news"
PresGetTodayNews ==
    /\ Running
    /\ InLoop("pres_tools")
    /\ ToolCall.name = "get_today_news"
    /\ FetchNews(CATEGORIES)
    /\ Suspend

\* one iteration, tool_call.function.name == "custom_domain_search"
PresCustomDomainSearch ==
    /\ Running
    /\ InLoop("pres_tools")
    /\ ToolCall.name = "custom_domain_search"
    /\ FetchNews(<< Arg(ToolCall.arguments, "domain") >>)
    /\ Suspend

\* one iteration, any other name: continue
PresSkipToolCall ==
    /\ Running
    /\ InLoop("pres_tools")
    /\ ToolCall.name \notin PresToolNames
    /\ idx' = idx + 1
    /\ UNCHANGED << pc, callVars, messages, assistant_msg, evaluation,
                    results, streamVars, inflight, sharedVars, trace,
                    probed >>
    /\ Suspend

\* presenter.chat: handle_tool_call returns
PresHandleToolCallReturn ==
    /\ Running
    /\ pc = "pres_tools"
    /\ idx > Len(assistant_msg.tool_calls[1])
    /\ messages' = Append(messages, assistant_msg) \o results
    /\ pc' = "pres_synth"
    /\ UNCHANGED << callVars, assistant_msg, evaluation, loopVars, streamVars,
                    inflight, sharedVars, trace, probed >>
    /\ Suspend

\* presenter.chat, tool path: synthesis over messages + the terminal
\* instruction
PresSynthCall ==
    /\ Running
    /\ pc = "pres_synth"
    /\ OpenStream(Append(messages, Msg("system",
           <<Text("Use the tool result to craft the news in the required markdown format.")>>)))
    /\ pc' = "pres_stream"
    /\ Suspend

PresStreamChunk(Contents) ==
    /\ Running
    /\ pc = "pres_stream"
    /\ ReceiveChunk(Contents)
    /\ Suspend

PresStreamEnd ==
    /\ Running
    /\ pc = "pres_stream"
    /\ EndOfStream
    /\ Suspend

\* presenter.chat, no-tool path: the streaming call over messages
PresNoToolCall ==
    /\ Running
    /\ pc = "pres_notool"
    /\ OpenStream(messages)
    /\ pc' = "pres_notool_stream"
    /\ Suspend

PresNoToolStreamChunk(Contents) ==
    /\ Running
    /\ pc = "pres_notool_stream"
    /\ ReceiveChunk(Contents)
    /\ Suspend

PresNoToolStreamEnd ==
    /\ Running
    /\ pc = "pres_notool_stream"
    /\ EndOfStream
    /\ Suspend

\* ------------------------------------ news tools of turns side by side
\* today_news is one module-level dict: turns that run side by side in one
\* process share it. A news tool is then a run of steps on the dict, each
\* atomic: clear(), one today_news[category] = ... per url, and one step of
\* the iteration over today_news.items() per item.

\* the state of one turn outside the news tools
turnVars == << pc, callVars, messages, assistant_msg, evaluation, loopVars,
               streamVars, inflight, caller, trace, probed >>

\* the urls dict get_today_news / custom_domain_search builds, as its keys
NewsUrls ==
    { IF sh.name = "get_today_news" THEN CATEGORIES
      ELSE << Arg(sh.arguments, "domain") >> :
          sh \in { x \in PresShapes : x.name \in PresToolNames } }

\* turn t has written the dict: every other turn that is between its own
\* clear() and the end of its iteration has been interleaved with
Interleave(f, t) ==
    [ u \in Turns |->
        IF u /= t /\ f[u].pc \in {"fill", "items"}
        THEN [ f[u] EXCEPT !.raced = TRUE ] ELSE f[u] ]

\* turn t enters get_today_news or custom_domain_search and builds urls
CallNewsTool(t) ==
    /\ fetchers[t].pc = "idle"
    /\ \E urls \in NewsUrls :
          fetchers' = [ fetchers EXCEPT ![t] =
                          [ NoFetch EXCEPT !.pc = "clear", !.urls = urls ] ]
    /\ UNCHANGED << turnVars, today_news >>

\* extract_news: today_news.clear() (first, a variant without it)
ClearNews_Skip(t) ==
    /\ fetchers[t].pc = "clear"
    /\ fetchers' = [ fetchers EXCEPT ![t].pc = "fill", ![t].i = 1 ]
    /\ UNCHANGED << turnVars, today_news >>

ClearNews(t) ==
    /\ fetchers[t].pc = "clear"
    /\ today_news' = <<>>
    /\ fetchers' = [ Interleave(fetchers, t) EXCEPT ![t].pc = "fill",
                                                    ![t].i = 1 ]
    /\ UNCHANGED turnVars

\* extract_news: one iteration of the loop, today_news[category] = ...
StoreListing(t) ==
    /\ fetchers[t].pc = "fill"
    /\ fetchers[t].i <= Len(fetchers[t].urls)
    /\ LET category == fetchers[t].urls[fetchers[t].i] IN
          today_news' = DictSet(today_news, category, [articles |-> category])
    /\ fetchers' = [ Interleave(fetchers, t) EXCEPT ![t].i = @ + 1 ]
    /\ UNCHANGED turnVars

\* extract_news: requests.get or response.json() raises in an iteration
ListingRaises(t) ==
    /\ fetchers[t].pc = "fill"
    /\ fetchers[t].i <= Len(fetchers[t].urls)
    /\ fetchers' = [ fetchers EXCEPT ![t].pc = "failed" ]
    /\ UNCHANGED << turnVars, today_news >>

\* extract_news has returned: the for statement over today_news.items()
\* creates its iterator, which remembers the size of the dict
IterateItems(t) ==
    /\ fetchers[t].pc = "fill"
    /\ fetchers[t].i > Len(fetchers[t].urls)
    /\ fetchers' = [ fetchers EXCEPT ![t].pc = "items", ![t].i = 1,
                                     ![t].used = Len(today_news),
                                     ![t].out = <<>> ]
    /\ UNCHANGED << turnVars, today_news >>

\* one step of the iterator: RuntimeError when the dict has changed size,
\* the end of the loop (return all_contents) after the last entry, and
\* otherwise one more block of all_contents
NextItem(t) ==
    /\ fetchers[t].pc = "items"
    /\ fetchers' =
          IF Len(today_news) /= fetchers[t].used
          THEN [ fetchers EXCEPT ![t].pc = "failed" ]
          ELSE IF fetchers[t].i > Len(today_news)
          THEN [ fetchers EXCEPT ![t].pc = "returned" ]
          ELSE [ fetchers EXCEPT
                   ![t].out = @ \o all_contents(<< today_news[fetchers[t].i] >>),
                   ![t].i = @ + 1 ]
    /\ UNCHANGED << turnVars, today_news >>

\* -------------------------------------------------------- specification
\* Spec: every shape of Decision, evaluation and tool outcome, with streams
\* over FewDeltas
Next ==
    \/ StartTurn
    \/ CallerNext
    \/ Abandon
    \/ CallRaises
    \/ RouterCall
    \/ RouterReturn(FewRouterReplies)
    \/ QAProbeCall
    \/ QAProbeReturn(QAShapes)
    \/ QAEvaluateCall
    \/ QAEvaluateReturn
    \/ QARerunCall
    \/ QARerunReturn(QAShapes)
    \/ QAHandleToolCall
    \/ QAVisitWebsite
    \/ QAFindInternetArticles(LinkReplies)
    \/ QAFindInternetArticlesRaises
    \/ QASkipToolCall
    \/ QAHandleToolCallReturn
    \/ QASynthCall
    \/ QAStreamChunk(FewDeltas)
    \/ QAStreamEnd
    \/ QANoToolCall
    \/ QANoToolStreamChunk(FewDeltas)
    \/ QANoToolStreamEnd
    \/ PresProbeCall
    \/ PresProbeReturn(PresShapes)
    \/ PresHandleToolCall
    \/ PresGetTodayNews
    \/ PresCustomDomainSearch
    \/ PresSkipToolCall
    \/ PresHandleToolCallReturn
    \/ PresSynthCall
    \/ PresStreamChunk(FewDeltas)
    \/ PresStreamEnd
    \/ PresNoToolCall
    \/ PresNoToolStreamChunk(FewDeltas)
    \/ PresNoToolStreamEnd

Spec == Init /\ [][Next]_vars

\* SpecStream: streams over Deltas, with Decisions over one implemented tool
\* per agent
NextStream ==
    \/ StartTurn
    \/ CallerNext
    \/ Abandon
    \/ CallRaises
    \/ RouterCall
    \/ RouterReturn(FewRouterReplies)
    \/ QAProbeCall
    \/ QAProbeReturn(FewQAShapes)
    \/ QAEvaluateCall
    \/ QAEvaluateReturn
    \/ QARerunCall
    \/ QARerunReturn(FewQAShapes)
    \/ QAHandleToolCall
    \/ QAVisitWebsite
    \/ QAHandleToolCallReturn
    \/ QASynthCall
    \/ QAStreamChunk(Deltas)
    \/ QAStreamEnd
    \/ QANoToolCall
    \/ QANoToolStreamChunk(Deltas)
    \/ QANoToolStreamEnd
    \/ PresProbeCall
    \/ PresProbeReturn(FewPresShapes)
    \/ PresHandleToolCall
    \/ PresCustomDomainSearch
    \/ PresHandleToolCallReturn
    \/ PresSynthCall
    \/ PresStreamChunk(Deltas)
    \/ PresStreamEnd
    \/ PresNoToolCall
    \/ PresNoToolStreamChunk(Deltas)
    \/ PresNoToolStreamEnd

SpecStream == Init /\ [][NextStream]_vars

\* SpecRouter: every reply of the router model, with Decisions over one
\* implemented tool per agent and streams over FewDeltas
NextRouter ==
    \/ StartTurn
    \/ CallerNext
    \/ Abandon
    \/ CallRaises
    \/ RouterCall
    \/ RouterReturn(RouterReplies)
    \/ QAProbeCall
    \/ QAProbeReturn(FewQAShapes)
    \/ QAEvaluateCall
    \/ QAEvaluateReturn
    \/ QARerunCall
    \/ QARerunReturn(FewQAShapes)
    \/ QAHandleToolCall
    \/ QAVisitWebsite
    \/ QAHandleToolCallReturn
    \/ QASynthCall
    \/ QAStreamChunk(FewDeltas)
    \/ QAStreamEnd
    \/ QANoToolCall
    \/ QANoToolStreamChunk(FewDeltas)
    \/ QANoToolStreamEnd
    \/ PresProbeCall
    \/ PresProbeReturn(FewPresShapes)
    \/ PresHandleToolCall
    \/ PresCustomDomainSearch
    \/ PresHandleToolCallReturn
    \/ PresSynthCall
    \/ PresStreamChunk(FewDeltas)
    \/ PresStreamEnd
    \/ PresNoToolCall
    \/ PresNoToolStreamChunk(FewDeltas)
    \/ PresNoToolStreamEnd

SpecRouter == Init /\ [][NextRouter]_vars

\* SpecSearch: Question-Answer turns whose Decisions only search, with every
\* shape of link-selection reply and streams over FewDeltas
NextSearch ==
    \/ StartTurn
    \/ CallerNext
    \/ Abandon
    \/ CallRaises
    \/ RouterCall
    \/ RouterReturn(QARouterReplies)
    \/ QAProbeCall
    \/ QAProbeReturn(SearchShapes)
    \/ QAEvaluateCall
    \/ QAEvaluateReturn
    \/ QARerunCall
    \/ QARerunReturn(SearchShapes)
    \/ QAHandleToolCall
    \/ QAFindInternetArticles(SearchReplies)
    \/ QAFindInternetArticlesRaises
    \/ QAHandleToolCallReturn
    \/ QASynthCall
    \/ QAStreamChunk(FewDeltas)
    \/ QAStreamEnd
    \/ QANoToolCall
    \/ QANoToolStreamChunk(FewDeltas)
    \/ QANoToolStreamEnd

SpecSearch == Init /\ [][NextSearch]_vars

\* SpecArgs: Decisions whose tool calls lack the required argument, with
\* streams over FewDeltas
NextArgs ==
    \/ StartTurn
    \/ CallerNext
    \/ Abandon
    \/ CallRaises
    \/ RouterCall
    \/ RouterReturn(FewRouterReplies)
    \/ QAProbeCall
    \/ QAProbeReturn(NoArgQAShapes)
    \/ QAEvaluateCall
    \/ QAEvaluateReturn
    \/ QARerunCall
    \/ QARerunReturn(NoArgQAShapes)
    \/ QAHandleToolCall
    \/ QAVisitWebsite
    \/ QAFindInternetArticles(LinkReplies)
    \/ QAFindInternetArticlesRaises
    \/ QAHandleToolCallReturn
    \/ QASynthCall
    \/ QAStreamChunk(FewDeltas)
    \/ QAStreamEnd
    \/ QANoToolCall
    \/ QANoToolStreamChunk(FewDeltas)
    \/ QANoToolStreamEnd
    \/ PresProbeCall
    \/ PresProbeReturn(NoArgPresShapes)
    \/ PresHandleToolCall
    \/ PresCustomDomainSearch
    \/ PresHandleToolCallReturn
    \/ PresSynthCall
    \/ PresStreamChunk(FewDeltas)
    \/ PresStreamEnd
    \/ PresNoToolCall
    \/ PresNoToolStreamChunk(FewDeltas)
    \/ PresNoToolStreamEnd

SpecArgs == Init /\ [][NextArgs]_vars

\* SpecConcurrent: the news tools of two turns running side by side on the
\* shared today_news
NextConcurrent ==
    \E t \in Turns :
        \/ CallNewsTool(t)
        \/ ClearNews(t)
        \/ StoreListing(t)
        \/ ListingRaises(t)
        \/ IterateItems(t)
        \/ NextItem(t)

SpecConcurrent == Init /\ [][NextConcurrent]_vars

\* SpecLive: the turns of a caller that consumes every turn to its end; every
\* call returns or raises, a stream ends after MaxChunks chunks at the
\* latest, and the caller keeps asking for the next value
Consume ==
    \/ CallerNext
    \/ CallRaises
    \/ RouterCall
    \/ RouterReturn(FewRouterReplies)
    \/ QAProbeCall
    \/ QAProbeReturn(QAShapes)
    \/ QAEvaluateCall
    \/ QAEvaluateReturn
    \/ QARerunCall
    \/ QARerunReturn(QAShapes)
    \/ QAHandleToolCall
    \/ QAVisitWebsite
    \/ QAFindInternetArticles(LinkReplies)
    \/ QAFindInternetArticlesRaises
    \/ QASkipToolCall
    \/ QAHandleToolCallReturn
    \/ QASynthCall
    \/ QAStreamChunk(FewDeltas)
    \/ QAStreamEnd
    \/ QANoToolCall
    \/ QANoToolStreamChunk(FewDeltas)
    \/ QANoToolStreamEnd
    \/ PresProbeCall
    \/ PresProbeReturn(PresShapes)
    \/ PresHandleToolCall
    \/ PresGetTodayNews
    \/ PresCustomDomainSearch
    \/ PresSkipToolCall
    \/ PresHandleToolCallReturn
    \/ PresSynthCall
    \/ PresStreamChunk(FewDeltas)
    \/ PresStreamEnd
    \/ PresNoToolCall
    \/ PresNoToolStreamChunk(FewDeltas)
    \/ PresNoToolStreamEnd

NextLive == StartTurn \/ Consume

SpecLive == Init /\ [][NextLive]_vars /\ WF_vars(Consume)

\* ----------------------------------------------------------- properties
\* the tool calls of the Decision the specialist holds
Calls ==
    IF assistant_msg = None \/ assistant_msg.tool_calls = None
    THEN <<>> ELSE assistant_msg.tool_calls[1]

\* the names the agent's handle_tool_call executes
Implemented == IF agent = "QA" THEN QAToolNames ELSE PresToolNames

\* events of tool execution
ToolOps ==
    QAToolNames \cup PresToolNames \cup {"fetch", "search", "links", "listing"}

\* handle_tool_call has returned to chat
Returned == pc \in {"qa_synth", "pres_synth"}

\* C1: a turn (of either agent) whose probe Decision has no tool calls makes
\* no tool call, no evaluation and no retry, up to and including its end
C1_NoToolCallsNoExecution ==
    probed = "text" =>
        /\ \A i \in 1..Len(trace) :
              trace[i].op \notin ToolOps \cup {"evaluate", "rerun"}
        /\ evaluation = None
        /\ results = <<>>

C1_Witness ==
    /\ pc = "done" /\ agent = "QA" /\ probed = "text"
    /\ yielded /= <<>>
    /\ [op |-> "synth", id |-> NoId] = trace[Len(trace)]

\* C2: in a Question-Answer turn the evaluator has returned an Evaluation
\* before the first tool is dispatched
C2_EvaluationBeforeTools ==
    agent = "QA" =>
        /\ pc = "qa_tools" => evaluation /= None /\ inflight = None
        /\ \A i \in 1..Len(trace) :
              trace[i].op \in ToolOps =>
                  /\ evaluation /= None
                  /\ \E j \in 1..(i - 1) : trace[j].op = "evaluate"

C2_Witness ==
    /\ agent = "QA" /\ pc = "qa_tools"
    /\ probed = "tool_calls"
    /\ results /= <<>>
    /\ evaluation /= None /\ evaluation[1].is_acceptable

\* C3: the retried decide call is made at most once per turn, and only
\* after an Evaluation that rejects
C3_AtMostOneRetry ==
    /\ Cardinality(At("rerun")) <= 1
    /\ \A i \in At("rerun") :
          /\ evaluation /= None
          /\ ~ evaluation[1].is_acceptable
          /\ \E j \in 1..(i - 1) : trace[j].op = "evaluate"

C3_Witness ==
    /\ pc = "done"
    /\ Cardinality(At("rerun")) = 1
    /\ probed = "tool_calls"
    /\ Len(results) >= 2

\* C4: the evaluator is called at most once per turn; the retried Decision
\* is executed without another evaluation, whatever it proposes
C4_AtMostOneEvaluation ==
    /\ Cardinality(At("evaluate")) <= 1
    /\ \A i \in At("rerun") : \A j \in At("evaluate") : j < i

C4_Witness ==
    /\ Cardinality(At("rerun")) = 1
    /\ Cardinality(At("evaluate")) = 1
    /\ \E k \in 1..Len(results) :
          /\ results[k].tool_call_id[1] = "rerun"
          /\ "url" \in DOMAIN results[k].content.json
          /\ results[k].content.json.url = "paywalled"

\* C5: after a rejection, a retried Decision without tool calls does not
\* make the turn fail: the turn goes on to the synthesis
C5_RetryWithoutToolCallsIsUsed ==
    ( /\ agent = "QA"
      /\ At("rerun") /= {}
      /\ trace[Len(trace)].op = "rerun"
      /\ assistant_msg /= None
      /\ ~ Truthy(assistant_msg.tool_calls) )
    => pc /= "failed"

\* C6: the retried decide call carries the persona prompt followed by the
\* rejected Decision and the evaluator's feedback, then the same history
\* and user message, and offers the agent's tools
C6_RerunCarriesDecisionAndFeedback ==
    (inflight /= None /\ inflight[1].op = "rerun") =>
        LET req == inflight[1]
            sys == req.messages[1]
            n   == Len(req.messages)
        IN  /\ sys.role = "system"
            /\ IsPrefix(QA_system_prompt, sys.content)
            /\ \E i \in DOMAIN sys.content : \E j \in DOMAIN sys.content :
                  /\ i < j
                  /\ sys.content[i] = Str(assistant_msg)
                  /\ sys.content[j] = Text(evaluation[1].feedback)
            /\ n = Len(history) + 2
            /\ SubSeq(req.messages, 2, n - 1) = history
            /\ req.messages[n] = Msg("user", <<Text(message)>>)
            /\ SubSeq(req.messages, 2, n) = SubSeq(messages, 2, Len(messages))
            /\ req.tools = Some(QA_tools)

C6_Witness ==
    /\ inflight /= None /\ inflight[1].op = "rerun"
    /\ history /= <<>>
    /\ Len(Calls) >= 2
    /\ ~ evaluation[1].is_acceptable

\* positions of the held Decision's tool calls that carry a given id
Requests(id) == { i \in 1..Len(Calls) : Calls[i].id = id }

\* C7: every tool-role result answers exactly one tool call of the executed
\* Decision, results come in the order of their requests, and in the
\* synthesis context they directly follow that Decision's message
C7_ResultsAnswerRequests ==
    /\ \A k \in 1..Len(results) :
          /\ results[k].role = "tool"
          /\ Cardinality(Requests(results[k].tool_call_id)) = 1
    /\ \A k \in 1..Len(results) : \A l \in 1..Len(results) :
          k < l => \A i \in Requests(results[k].tool_call_id) :
                   \A j \in Requests(results[l].tool_call_id) : i < j
    /\ (inflight /= None /\ pc \in {"qa_stream", "pres_stream"}) =>
          LET ms == inflight[1].messages
              a  == Len(history) + 3
          IN  /\ ms[a] = assistant_msg
              /\ \A i \in 1..Len(ms) :
                    ms[i].role = "tool" <=> (a < i /\ i <= a + Len(results))
              /\ \A k \in 1..Len(results) : ms[a + k] = results[k]

C7_Witness ==
    /\ inflight /= None /\ pc = "qa_stream"
    /\ Len(results) >= 2
    /\ results[1].tool_call_id /= results[2].tool_call_id

\* C8 as claimed: when handle_tool_call returns, there are as many results
\* as the Decision has tool calls
C8_OneResultPerToolCall ==
    Returned => Len(results) = Len(Calls)

\* C8 as amended: when handle_tool_call returns, each tool call that names a
\* tool the agent implements has exactly one result and every other tool
\* call has none
C8_OneResultPerImplementedToolCall ==
    Returned =>
        /\ \A i \in 1..Len(Calls) :
              Cardinality({ k \in 1..Len(results) :
                              results[k].tool_call_id = Calls[i].id })
                  = IF Calls[i].name \in Implemented THEN 1 ELSE 0
        /\ Len(results)
              = Cardinality({ i \in 1..Len(Calls) : Calls[i].name \in Implemented })

C8_Witness ==
    /\ pc = "qa_synth"
    /\ Len(Calls) >= 2
    /\ Len(results) = Len(Calls) - 1

\* C9: the iteration on a tool call whose name the agent does not implement
\* raises nothing and adds no result and no call; the loop goes on with the
\* next tool call
C9_UnknownToolSkipped ==
    [][ ( /\ pc \in {"qa_tools", "pres_tools"}
          /\ idx <= Len(Calls)
          /\ Calls[idx].name \notin Implemented )
        => ( /\ pc' = pc
             /\ idx' = idx + 1
             /\ results' = results
             /\ trace' = trace
             /\ assistant_msg' = assistant_msg ) ]_vars

C9_Witness ==
    /\ pc = "qa_synth"
    /\ Len(Calls) >= 2
    /\ Calls[1].name \notin Implemented
    /\ \E k \in 1..Len(results) : results[k].tool_call_id = Calls[2].id

\* C10: every value yielded in a turn has the one yielded before it as a
\* prefix
C10_YieldedExtendsPrevious ==
    \A i \in 1..(Len(yielded) - 1) : IsPrefix(yielded[i], yielded[i + 1])

C10_Witness ==
    /\ pc = "done"
    /\ Len(yielded) >= 2
    /\ Len(yielded[1]) < Len(yielded[2])

\* a stream is open
Streaming ==
    pc \in {"qa_stream", "qa_notool_stream", "pres_stream", "pres_notool_stream"}

\* C11 as claimed: when the stream ends, one more value is yielded whatever
\* was generated, and it is the concatenation of the stream's text deltas
C11_FinalYieldAlways ==
    [][ (Streaming /\ pc' = "done") => yielded' = Append(yielded, generated) ]_vars

\* C11 as amended: when the stream ends after some text, one more value is
\* yielded and it is the concatenation of the stream's text deltas; when it
\* ends after no text at all, the turn yields nothing
C11_FinalYieldIfText ==
    [][ (Streaming /\ pc' = "done") =>
            IF generated = <<>>
            THEN yielded = <<>> /\ yielded' = <<>>
            ELSE yielded' = Append(yielded, generated) ]_vars

C11_Witness ==
    /\ pc = "done"
    /\ Len(yielded) = 2
    /\ yielded[1] = <<"\n", "\n">>
    /\ yielded[2] = <<"\n", "\n", "a">>
    /\ generated = yielded[2]

\* C12 as claimed: after each chunk of the open stream, the buffer is yielded
\* if it ends with two newlines, and nothing is yielded otherwise
C12_FlushAtParagraphBreak ==
    [][ (Streaming /\ nchunks' = nchunks + 1) =>
            IF EndsWith(partial', <<"\n", "\n">>)
            THEN yielded' = Append(yielded, partial')
            ELSE yielded' = yielded ]_vars

\* C12 as amended: after each chunk that carries text, the buffer is yielded
\* if it ends with two newlines, and nothing is yielded otherwise; a chunk
\* that carries no text yields nothing
C12_FlushAfterTextAtParagraphBreak ==
    [][ (Streaming /\ nchunks' = nchunks + 1) =>
            IF generated' /= generated /\ EndsWith(partial', <<"\n", "\n">>)
            THEN yielded' = Append(yielded, partial')
            ELSE yielded' = yielded ]_vars

C12_Witness ==
    /\ Streaming
    /\ nchunks = 3
    /\ partial = <<"\n", "\n">>
    /\ yielded = << <<"\n", "\n">> >>

\* positions of the generator inside each specialist's chat
QAPositions ==
    { "qa_probe", "qa_probe_wait", "qa_evaluate", "qa_evaluate_wait",
      "qa_rerun", "qa_rerun_wait", "qa_handle", "qa_tools", "qa_synth",
      "qa_stream", "qa_notool", "qa_notool_stream" }

PresPositions ==
    { "pres_probe", "pres_probe_wait", "pres_handle", "pres_tools",
      "pres_synth", "pres_stream", "pres_notool", "pres_notool_stream" }

\* calls only QA.chat makes, and calls only presenter.chat makes
QAOps   == QAToolNames \cup {"evaluate", "rerun", "search", "links", "fetch"}
PresOps == PresToolNames \cup {"listing"}

\* the calls of the turn after the router's own
SpecialistCalls ==
    { i \in 1..Len(trace) : trace[i].op \notin {"router", "raised"} }

\* C13: a turn is handled by the Presenter exactly when the router's reply
\* is the string "Presenter LLM" and by the Question-Answer agent for any
\* other reply; before the reply no specialist has acted, and after it only
\* the selected one makes calls
C13_ExactlyOneSpecialist ==
    /\ decision = None =>
          /\ agent = "none"
          /\ pc \notin QAPositions \cup PresPositions
          /\ SpecialistCalls = {}
    /\ decision /= None =>
          /\ agent = IF decision[1] = Some("Presenter LLM")
                     THEN "Presenter" ELSE "QA"
          /\ agent = "Presenter" =>
                /\ pc \in PresPositions \cup {"done", "failed"}
                /\ \A i \in 1..Len(trace) : trace[i].op \notin QAOps
                /\ messages /= <<>> =>
                      messages[1] = Msg("system", presenter_system_prompt)
          /\ agent = "QA" =>
                /\ pc \in QAPositions \cup {"done", "failed"}
                /\ \A i \in 1..Len(trace) : trace[i].op \notin PresOps
                /\ messages /= <<>> =>
                      messages[1] = Msg("system", QA_system_prompt)

C13_Witness ==
    /\ pc = "done"
    /\ decision = Some(Some("presenter llm"))
    /\ agent = "QA"
    /\ SpecialistCalls /= {}
    /\ yielded /= <<>>

\* C14: the router makes one call per turn, without tools; when that call
\* raises, the turn has failed with no specialist invoked, no further call
\* and nothing yielded
C14_RouterCallsOnceAndPropagates ==
    /\ Cardinality(At("router")) <= 1
    /\ pc \notin {"idle", "router"} => At("router") = {1}
    /\ (inflight /= None /\ inflight[1].op = "router") =>
          /\ inflight[1].tools = None
          /\ pc = "router_wait"
    /\ decision = None =>
          /\ agent = "none"
          /\ pc \in {"idle", "router", "router_wait", "failed"}
          /\ SpecialistCalls = {}
          /\ yielded = <<>>

C14_Witness ==
    /\ pc = "failed"
    /\ decision = None
    /\ agent = "none"
    /\ trace = << Event("router", NoId), Event("raised", NoId) >>
    /\ history /= <<>>
    /\ yielded = <<>>

\* a turn is under way
InTurn == pc \notin {"idle", "done", "failed"}

\* C15: no step of a turn changes the history list it was called with, up to
\* and including the turn's end or failure; the specialist's own list holds
\* a copy of it between the persona and the user message, and everything
\* appended comes after that
C15_HistoryNotMutated ==
    /\ [][ InTurn => history' = history ]_vars
    /\ [] ( messages /= <<>> =>
              /\ Len(messages) >= Len(history) + 2
              /\ SubSeq(messages, 2, Len(history) + 1) = history
              /\ messages[Len(history) + 2] = Msg("user", <<Text(message)>>) )

C15_Witness ==
    /\ pc = "done"
    /\ agent = "QA"
    /\ history /= <<>>
    /\ At("rerun") /= {}
    /\ results /= <<>>
    /\ Len(messages) = Len(history) + 3 + Len(results)

\* the persona prompt of the selected specialist
Persona == IF agent = "QA" THEN QA_system_prompt ELSE presenter_system_prompt

\* the message list chat() builds first
OriginalMessages ==
    <<Msg("system", Persona)>> \o history \o <<Msg("user", <<Text(message)>>)>>

\* the streaming call of the no-tool branch is in flight
NoToolSynthesis ==
    /\ pc \in {"qa_notool_stream", "pres_notool_stream"}
    /\ inflight /= None

\* C16 as claimed: on the no-tool branch the streaming call is issued over
\* the original message list followed by one terminal system instruction
C16_NoToolSynthesisHasInstruction ==
    NoToolSynthesis =>
        LET ms == inflight[1].messages IN
            /\ inflight[1].stream
            /\ Len(ms) = Len(OriginalMessages) + 1
            /\ SubSeq(ms, 1, Len(ms) - 1) = OriginalMessages
            /\ ms[Len(ms)].role = "system"

\* C16 as amended: on the no-tool branch the streaming call is issued over
\* the original message list and nothing else, without tools
C16_NoToolSynthesisOverOriginal ==
    NoToolSynthesis =>
        /\ inflight[1].op = "synth"
        /\ inflight[1].stream
        /\ inflight[1].tools = None
        /\ inflight[1].messages = OriginalMessages
        /\ messages = OriginalMessages

C16_Witness ==
    /\ pc = "qa_notool_stream"
    /\ inflight /= None
    /\ history /= <<>>
    /\ probed = "text"
    /\ nchunks = 0

\* the ids of the tool calls the turn has dispatched, in order
Dispatched ==
    LET IsTool(e) == e.op \in QAToolNames \cup PresToolNames
        ev == SelectSeq(trace, IsTool)
    IN  [ i \in 1..Len(ev) |-> ev[i].id ]

\* the ids of the held Decision's tool calls that name an implemented tool
Proposed ==
    LET IsImplemented(c) == c.name \in Implemented
        cs == SelectSeq(Calls, IsImplemented)
    IN  [ i \in 1..Len(cs) |-> cs[i].id ]

\* C17: a Presenter turn has no Evaluation, no evaluator call and no retried
\* decide call; it makes one probe and, when it completes, one streaming
\* call; the tool calls it dispatches are those of the probe Decision, in
\* the order proposed
C17_PresenterNeverEvaluates ==
    agent = "Presenter" =>
        /\ evaluation = None
        /\ At("evaluate") = {} /\ At("rerun") = {}
        /\ Cardinality(At("probe")) <= 1
        /\ Cardinality(At("synth")) <= 1
        /\ pc = "done" =>
              Cardinality(At("probe")) = 1 /\ Cardinality(At("synth")) = 1
        /\ \A i \in 1..Len(Calls) : Calls[i].id[1] = "probe"
        /\ IsPrefix(Dispatched, Proposed)
        /\ pc \in {"pres_synth", "pres_stream", "done"} /\ Truthy(assistant_msg.tool_calls)
              => Dispatched = Proposed

C17_Witness ==
    /\ agent = "Presenter"
    /\ pc = "done"
    /\ Len(Calls) = 2
    /\ Len(Dispatched) = 2
    /\ yielded /= <<>>

\* the text lookup_news returns for a page it could not fetch
SoftFailure(url) ==
    << Text("This website "), Str(url),
       Text(" cannot be fetched, possibly because it is paywalled.") >>

\* the visit_website calls whose page fetch failed, as positions of the trace
FailedVisits ==
    { i \in 2..Len(trace) :
        /\ trace[i].op = "fetch" /\ ~ trace[i].ok
        /\ trace[i - 1] = Event("visit_website", trace[i].id) }

\* C18: a visit_website call whose page fetch fails is answered with the
\* fixed text naming the URL (so two such calls on one URL get the same
\* text), the turn does not fail at that call, and the loop goes on to the
\* next tool call and to the synthesis
C18_FailedFetchIsSoft ==
    /\ [] \A i \in FailedVisits :
            \E k \in 1..Len(results) :
                /\ results[k].tool_call_id = trace[i].id
                /\ results[k].content =
                      JsonDumps([url |-> trace[i].url,
                                 web_content |-> SoftFailure(trace[i].url)])
    /\ [][ ( /\ pc = "qa_tools"
             /\ idx <= Len(Calls)
             /\ Calls[idx].name = "visit_website" )
           => ( /\ pc' = "qa_tools"
                /\ idx' = idx + 1
                /\ Len(results') = Len(results) + 1
                /\ UNCHANGED << messages, assistant_msg, today_news, history >> )
        ]_vars

C18_Witness ==
    /\ pc = "qa_stream"
    /\ Cardinality(FailedVisits) = 2
    /\ Len(results) = 2
    /\ results[1].content = results[2].content
    /\ results[1].content.json.web_content
          = SoftFailure(results[1].content.json.url)

\* the listing fetches that failed, as positions of the trace
FailedListings ==
    { i \in 1..Len(trace) : trace[i].op = "listing" /\ ~ trace[i].ok }

\* C19: once a listing fetch of get_today_news or custom_domain_search has
\* failed, the turn has failed: that fetch is the turn's last call, its tool
\* call has no result, no synthesis call is made and nothing is yielded
C19_ListingFailureAbortsTurn ==
    \A i \in FailedListings :
        /\ pc = "failed"
        /\ i = Len(trace)
        /\ \A k \in 1..Len(results) : results[k].tool_call_id /= trace[i].id
        /\ At("synth") = {}
        /\ inflight = None
        /\ yielded = <<>>

C19_Witness ==
    /\ pc = "failed"
    /\ agent = "Presenter"
    /\ FailedListings /= {}
    /\ trace[Len(trace)].category = "Tech"
    /\ Len(today_news) = 2

\* the non-streaming backend calls of a specialist's turn
NonStreamingOps == {"probe", "evaluate", "rerun", "links"}

\* the raised failures of such calls, as positions of the trace
RaisedCalls ==
    { i \in 2..Len(trace) :
        trace[i].op = "raised" /\ trace[i - 1].op \in NonStreamingOps }

\* C20: once a probe, an evaluator call, a retried decide call or a link
\* selection call has raised, the turn has failed: the failure is the last
\* entry of the turn's calls (no retry and no later step), no synthesis call
\* was made and nothing has been yielded
C20_BackendFailureAbortsTurn ==
    \A i \in RaisedCalls :
        /\ pc = "failed"
        /\ i = Len(trace)
        /\ Cardinality(At("raised")) = 1
        /\ At("synth") = {}
        /\ inflight = None
        /\ yielded = <<>>

C20_Witness ==
    /\ pc = "failed"
    /\ RaisedCalls = {Len(trace)}
    /\ trace[Len(trace) - 1].op = "links"
    /\ Len(results) = 1
    /\ At("evaluate") /= {}

\* the page fetches of the turn, as positions of the trace
Fetches == At("fetch")

\* C21: in a Question-Answer turn no page fetch goes to a URL of a source on
\* the paywall list
C21_NoPaywalledFetch ==
    agent = "QA" => \A i \in Fetches : trace[i].url \notin PAYWALLED_SOURCES

\* the link-selection replies received in the turn, as positions of the trace
LinkSelections ==
    { i \in At("links") : "reply" \in DOMAIN trace[i] }

\* a link-selection reply that holds a links list whose links all have a
\* title and a URL
WellFormed(reply) ==
    /\ "links" \in DOMAIN reply
    /\ \A j \in 1..Len(reply.links) :
          {"title", "url"} \subseteq DOMAIN reply.links[j]

\* C22: a link-selection reply without a links list, or with a link that
\* lacks a title or a URL, and an evaluator reply without a parsed verdict,
\* make the turn fail; the tool call gets no result built from defaults
C22_MalformedReplyIsFailure ==
    /\ \A i \in LinkSelections :
          ~ WellFormed(trace[i].reply) =>
              /\ pc = "failed"
              /\ \A k \in 1..Len(results) :
                    results[k].tool_call_id /= trace[i].id
    /\ (At("evaluate") /= {} /\ inflight = None /\ evaluation = None) =>
          pc = "failed"

\* the terminal instruction of the selected specialist's tool path
TerminalInstruction ==
    IF agent = "QA"
    THEN Msg("system", <<Text("Use the tool result to craft the answer in your Cleo Abram style.")>>)
    ELSE Msg("system", <<Text("Use the tool result to craft the news in the required markdown format.")>>)

\* a streaming call is in flight
SynthesisInFlight == inflight /= None /\ inflight[1].op = "synth"

\* C23: in a Question-Answer turn the only system messages of the per-turn
\* list and of the synthesis call are the persona prompt and the terminal
\* instruction (the augmented prompt of the retry, with the rejected
\* Decision and the feedback, is in neither); after a retry the one Decision
\* in the synthesis call is the retried one; and every yielded value is a
\* prefix of the text the stream has delivered
C23_FeedbackStaysInternal ==
    agent = "QA" =>
        /\ \A i \in 1..Len(messages) :
              messages[i].role = "system" =>
                  messages[i] = Msg("system", QA_system_prompt)
        /\ SynthesisInFlight =>
              LET ms == inflight[1].messages IN
              \A i \in 1..Len(ms) :
                  /\ ms[i].role = "system" =>
                        ms[i] \in {Msg("system", QA_system_prompt),
                                   TerminalInstruction}
                  /\ (ms[i].role = "assistant" /\ i > Len(history) + 2) =>
                        /\ ms[i] = assistant_msg
                        /\ At("rerun") /= {} =>
                              \A c \in 1..Len(Calls) : Calls[c].id[1] = "rerun"
        /\ \A j \in 1..Len(yielded) : IsPrefix(yielded[j], generated)

C23_Witness ==
    /\ agent = "QA"
    /\ pc = "done"
    /\ At("rerun") /= {}
    /\ evaluation /= None /\ ~ evaluation[1].is_acceptable
    /\ results /= <<>>
    /\ yielded /= <<>>

\* the arguments each tool's declared schema requires
Required(name) ==
    CASE name = "visit_website"          -> {"url"}
      [] name = "find_internet_articles" -> {"query"}
      [] name = "custom_domain_search"   -> {"domain"}
      [] OTHER                           -> {}

\* C24: a tool call that has been dispatched carries every argument its
\* tool's schema requires
C24_ArgumentsValidated ==
    \A c \in 1..Len(Calls) :
        (\E d \in 1..Len(Dispatched) : Dispatched[d] = Calls[c].id) =>
            Required(Calls[c].name) \subseteq DOMAIN Calls[c].arguments

\* the links of a link-selection reply
LinksOf(reply) == GetOr(reply, "links", <<>>)

\* the page fetches made for the tool call id, as positions of the trace
FetchesFor(id) == { j \in Fetches : trace[j].id = id }

C26_SynthesisContextOrder ==
    (SynthesisInFlight /\ pc \in {"qa_stream", "pres_stream"}) =>
        /\ inflight[1].messages =
              OriginalMessages \o <<assistant_msg>> \o results
                  \o <<TerminalInstruction>>
        /\ assistant_msg.role = "assistant"
        /\ \A k \in 1..Len(results) : results[k].role = "tool"
        /\ \A k \in 1..(Len(results) - 1) :
              results[k].tool_call_id[2] < results[k + 1].tool_call_id[2]

C26_Witness ==
    /\ SynthesisInFlight
    /\ pc = "qa_stream"
    /\ nchunks = 0
    /\ history /= <<>>
    /\ Len(results) = 2
    /\ Len(inflight[1].messages) = Len(history) + 6

\* the step of the protocol a call belongs to
Rank(op) ==
    CASE op = "router"   -> 1
      [] op = "probe"    -> 2
      [] op = "evaluate" -> 3
      [] op = "rerun"    -> 4
      [] op = "synth"    -> 6
      [] OTHER           -> 5

\* the calls of the turn, without the record of a raised failure
CallPositions == { i \in 1..Len(trace) : trace[i].op /= "raised" }

\* C27: the calls of a turn are made in the order route, probe, evaluate,
\* retried decide, tools, synthesis, each of the model calls at most once;
\* a call is only issued while no backend call is in flight; the tool calls
\* of the Decision are dispatched in request order; and the synthesis call
\* comes after every tool call of the Decision has been dispatched
C27_StepsInSequence ==
    /\ [] ( /\ \A i \in CallPositions : \A j \in CallPositions :
                  i < j =>
                      /\ Rank(trace[i].op) <= Rank(trace[j].op)
                      /\ Rank(trace[i].op) = Rank(trace[j].op)
                            => Rank(trace[i].op) = 5
            /\ \A k \in 1..(Len(Dispatched) - 1) :
                  Dispatched[k][2] < Dispatched[k + 1][2]
            /\ (At("synth") /= {} /\ probed = "tool_calls")
                  => Dispatched = Proposed )
    /\ [][ ( /\ Len(trace') > Len(trace)
             /\ trace'[Len(trace')].op /= "raised" )
           => inflight = None ]_vars

C27_Witness ==
    /\ pc = "done"
    /\ { Rank(trace[i].op) : i \in CallPositions } = 1..6
    /\ Len(Dispatched) = 2
    /\ Dispatched[1][1] = "rerun"

\* the keys of an insertion-ordered dict, in order
Keys(d) == [ i \in 1..Len(d) |-> d[i].key ]

\* the categories a news tool call asks for
Requested(call) ==
    IF call.name = "get_today_news" THEN CATEGORIES
    ELSE << Arg(call.arguments, "domain") >>

\* the categories a tool's returned string lists, in order: the string is a
\* run of blocks "Category:<category>\n<listing>\n\n\n"
Listed(summary) ==
    [ k \in 1..(Len(summary) \div 5) |-> summary[5 * (k - 1) + 2].text ]

IsListing(summary) ==
    /\ Len(summary) % 5 = 0
    /\ \A k \in 1..(Len(summary) \div 5) :
          /\ summary[5 * (k - 1) + 1] = Text("Category:")
          /\ summary[5 * (k - 1) + 3] = Text("\n")
          /\ summary[5 * (k - 1) + 5] = Text("\n\n\n")

\* C28: a news tool call that returns leaves in the cache exactly the
\* categories it asked for, in order, whatever the cache held before, and
\* the string it returns lists exactly those categories, each once, in order
C28_CacheReplacedByEachFetch ==
    [][ ( /\ pc = "pres_tools"
          /\ Len(results') = Len(results) + 1 )
        => LET call    == Calls[idx]
               summary == results'[Len(results')].content.json.summary
           IN  /\ Keys(today_news') = Requested(call)
               /\ IsListing(summary)
               /\ Listed(summary) = Requested(call) ]_vars

C28_Witness ==
    /\ pc = "pres_synth"
    /\ Len(results) = 2
    /\ Calls[1].name = "get_today_news"
    /\ Calls[2].name = "custom_domain_search"
    /\ Keys(today_news) = <<"fashion">>
    /\ Listed(results[1].content.json.summary) = CATEGORIES

\* the results of find_internet_articles calls, as positions of results
SearchResults ==
    { k \in 1..Len(results) :
        "search_results" \in DOMAIN results[k].content.json }

\* the positions of a search output at which an article block starts
BlockStarts(out) ==
    { p \in 1..Len(out) : out[p] = Text("Here is one relevant article\n") }

\* the rank of p among the members of the set S of positions
NthOf(S, p) == Cardinality({ q \in S : q <= p })

\* C30: find_internet_articles fetches one page per link of the selection
\* reply, in the reply's order, and its output holds one block per link in
\* that order with the link's title and URL; the block of a link whose
\* fetch failed holds the soft-failure text, the block of any other link the
\* page, and the links after a failed one are fetched and reported as well
C30_OneBlockPerLinkInOrder ==
    \A k \in SearchResults :
      \E i \in LinkSelections :
        /\ trace[i].id = results[k].tool_call_id
        /\ LET links == LinksOf(trace[i].reply)
               id    == trace[i].id
               out   == results[k].content.json.search_results
               F     == FetchesFor(id)
               B     == BlockStarts(out)
           IN  /\ Cardinality(F) = Len(links)
               /\ Cardinality(B) = Len(links)
               /\ \A j \in F :
                     /\ j > i
                     /\ trace[j].url = GetOr(links[NthOf(F, j)], "url", "No URL")
               /\ \A p \in B : \E j \in F :
                     /\ NthOf(F, j) = NthOf(B, p)
                     /\ out[p + 2] = Str(GetOr(links[NthOf(B, p)], "title", "No title"))
                     /\ out[p + 5] = Str(trace[j].url)
                     /\ IF trace[j].ok
                        THEN SubSeq(out, p + 7, p + 11) = get_contents(trace[j].url)
                        ELSE SubSeq(out, p + 7, p + 9) = SoftFailure(trace[j].url)

C30_Witness ==
    /\ pc = "qa_synth"
    /\ \E k \in SearchResults : \E i \in LinkSelections :
          /\ trace[i].id = results[k].tool_call_id
          /\ Len(LinksOf(trace[i].reply)) = 2
          /\ ~ trace[i + 1].ok
          /\ trace[i + 2].ok
          /\ Cardinality(BlockStarts(results[k].content.json.search_results)) = 2

\* the turns whose news tool has returned a string that does not list
\* exactly the categories the turn asked for, in order
Mixed ==
    { t \in Turns : /\ fetchers[t].pc = "returned"
                    /\ Listed(fetchers[t].out) /= fetchers[t].urls }

\* C29: the string a turn's news tool returns lists other categories than
\* the turn's own only if another turn wrote the shared cache between this
\* turn's clear and the end of its read; turns whose news tools run one
\* after another always get their own categories
C29_MixedOnlyWhenInterleaved ==
    \A t \in Mixed : fetchers[t].raced

\* a turn's returned string holds a category of the other turn and lacks
\* one of its own
C29_Witness ==
    \E t \in Mixed : \E u \in Turns \ {t} :
        LET mine   == { fetchers[t].urls[k] : k \in 1..Len(fetchers[t].urls) }
            theirs == { fetchers[u].urls[k] : k \in 1..Len(fetchers[u].urls) }
            listed == { Listed(fetchers[t].out)[k] :
                           k \in 1..Len(Listed(fetchers[t].out)) }
        IN  /\ IsListing(fetchers[t].out)
            /\ listed \cap (theirs \ mine) /= {}
            /\ mine \ listed /= {}

\* what a turn has produced and done so far: its position, the values it
\* has yielded, the chunks it has pulled from the stream, its backend and
\* tool calls, and what those calls have built
Progress ==
    << pc, yielded, nchunks, partial, trace, inflight, messages, results,
       today_news >>

\* the step is the start of a new turn
NewTurn == pc \in {"idle", "done", "failed"} /\ pc' = "router"

\* C31: a value is yielded only while the caller is asking for one, one value
\* per request, and the caller holds it before anything else happens; while
\* the caller is not asking, the turn makes no progress at all (no value, no
\* chunk pulled, no backend or tool call); a caller that has stopped
\* consuming stays stopped, so that turn never moves again
C31_ProducedOnlyOnDemand ==
    /\ [][ Len(yielded') > Len(yielded) =>
              /\ caller = "waiting"
              /\ caller' = "holding"
              /\ Len(yielded') = Len(yielded) + 1 ]_vars
    /\ [][ (caller /= "waiting" /\ ~ NewTurn) => UNCHANGED Progress ]_vars
    /\ [][ caller = "stopped" => (caller' = "stopped" /\ UNCHANGED Progress) ]_vars

\* the caller stopped after the first value of a stream that had more to give
C31_Witness ==
    /\ caller = "stopped"
    /\ pc \in {"qa_stream", "pres_stream"}
    /\ Len(yielded) = 1
    /\ nchunks < MaxChunks
    /\ inflight /= None

\* the decide call whose Decision a Question-Answer turn executes
Executed ==
    IF evaluation /= None /\ ~ evaluation[1].is_acceptable
    THEN "rerun" ELSE "probe"

\* the assistant messages of the per-turn list beyond the caller's history
OwnAssistantMessages ==
    { i \in (Len(history) + 3)..Len(messages) : messages[i].role = "assistant" }

\* C32: in a Question-Answer turn every dispatched tool call belongs to one
\* Decision, the probe's when the Evaluation accepted (and then no retry was
\* made) and the retry's when it rejected; it is a tool call of the Decision
\* the turn holds; no tool call is dispatched twice; and the one assistant
\* message the turn adds to the synthesis context is that Decision, all of
\* whose implemented tool calls were dispatched in order
C32_OneDecisionExecuted ==
    agent = "QA" =>
        /\ Dispatched /= <<>> => evaluation /= None
        /\ \A k \in 1..Len(Dispatched) :
              /\ Dispatched[k][1] = Executed
              /\ \E c \in 1..Len(Calls) : Calls[c].id = Dispatched[k]
              /\ \A l \in 1..Len(Dispatched) :
                    Dispatched[k] = Dispatched[l] => k = l
        /\ (evaluation /= None /\ evaluation[1].is_acceptable) =>
              At("rerun") = {}
        /\ (evaluation /= None /\ ~ evaluation[1].is_acceptable
                /\ pc \in {"qa_handle", "qa_tools", "qa_synth", "qa_stream"}) =>
              Cardinality(At("rerun")) = 1
        /\ OwnAssistantMessages /= {} =>
              /\ OwnAssistantMessages = { Len(history) + 3 }
              /\ messages[Len(history) + 3] = assistant_msg
              /\ Dispatched = Proposed

\* a rejected probe Decision with tool calls, a retried Decision with two,
\* both dispatched, and the synthesis under way
C32_Witness ==
    /\ agent = "QA"
    /\ pc = "qa_stream"
    /\ ~ evaluation[1].is_acceptable
    /\ Len(Dispatched) = 2
    /\ Dispatched[1][1] = "rerun"
    /\ messages[Len(history) + 3] = assistant_msg

\* the chunks of the stream that carry text
TextChunks == { k \in 1..Len(deltas) : Truthy(deltas[k]) }

\* C33: no value yielded is the empty string; a chunk without text content
\* (no content, or the empty string) yields nothing; and a turn whose stream
\* carried no text at all ends having yielded nothing
C33_YieldedValuesNonEmpty ==
    /\ [] ( /\ \A i \in 1..Len(yielded) : yielded[i] /= <<>>
            /\ (pc = "done" /\ TextChunks = {}) => yielded = <<>> )
    /\ [][ ( /\ Len(deltas') = Len(deltas) + 1
             /\ ~ Truthy(deltas'[Len(deltas')]) ) => yielded' = yielded ]_vars

\* a stream of chunks none of which carries text, one of them with the
\* empty string as its content
C33_Witness ==
    /\ pc = "done"
    /\ Len(deltas) >= 2
    /\ TextChunks = {}
    /\ \E k \in 1..Len(deltas) : deltas[k] = Some(<<>>)
    /\ yielded = <<>>

\* the text of the first k chunks
RECURSIVE TextUpTo(_)
TextUpTo(k) ==
    IF k = 0 THEN <<>>
    ELSE TextUpTo(k - 1) \o (IF Truthy(deltas[k]) THEN deltas[k][1] ELSE <<>>)

\* the text chunks after which the buffer ends with a paragraph break
Breaks == { k \in TextChunks : EndsWith(TextUpTo(k), <<"\n", "\n">>) }

\* C34: a completed turn has yielded one value per text chunk after which
\* the buffer ended with two newlines, plus one if the stream carried any
\* text; so when the whole text ends with two newlines the last two values
\* yielded are both the whole text
C34_YieldCount ==
    pc = "done" =>
        /\ Len(yielded) = Cardinality(Breaks)
                            + (IF TextChunks /= {} THEN 1 ELSE 0)
        /\ (generated /= <<>> /\ EndsWith(generated, <<"\n", "\n">>)) =>
              /\ Len(yielded) >= 2
              /\ yielded[Len(yielded)] = generated
              /\ yielded[Len(yielded) - 1] = generated

C34_Witness ==
    /\ pc = "done"
    /\ generated = <<"\n", "\n">>
    /\ deltas[Len(deltas)] = None
    /\ yielded = << generated, generated >>

\* the listing fetches the step has made that succeeded
NewListings ==
    { j \in (Len(trace) + 1)..Len(trace') :
        trace'[j].op = "listing" /\ trace'[j].ok }

\* the step is a news tool call that a failing listing fetch ends
ListingFails ==
    /\ pc = "pres_tools"
    /\ pc' = "failed"
    /\ \E j \in (Len(trace) + 1)..Len(trace') :
          trace'[j].op = "listing" /\ ~ trace'[j].ok

\* C35: when a listing fetch fails part-way, the cache is left holding the
\* categories fetched before the failure and only those, whatever it held
\* before; nothing restores it when the turn fails or the next turn starts
C35_PartialCacheAfterFailure ==
    /\ [][ ListingFails =>
              /\ Cardinality(NewListings) < Len(Requested(Calls[idx]))
              /\ Keys(today_news') =
                    SubSeq(Requested(Calls[idx]), 1, Cardinality(NewListings)) ]_vars
    /\ [][ (pc = "failed" \/ NewTurn) => today_news' = today_news ]_vars

\* a turn starts on the cache left by a fetch of today's news that failed at
\* its third category
C35_Witness ==
    /\ pc = "router"
    /\ trace = <<>>
    /\ Keys(today_news) = << "Top headlines", "Business" >>

\* the positions of chat in the order its statements come, the two agents
\* side by side
Stages ==
    << {"router"}, {"router_wait"},
       {"qa_probe", "pres_probe"}, {"qa_probe_wait", "pres_probe_wait"},
       {"qa_evaluate"}, {"qa_evaluate_wait"}, {"qa_rerun"}, {"qa_rerun_wait"},
       {"qa_handle", "pres_handle", "qa_notool", "pres_notool"},
       {"qa_tools", "pres_tools"}, {"qa_synth", "pres_synth"},
       {"qa_stream", "pres_stream", "qa_notool_stream", "pres_notool_stream"},
       {"done", "failed"} >>

Stage(p) == CHOOSE k \in 1..Len(Stages) : p \in Stages[k]

\* the model calls of the turn
ModelCalls == { i \in 1..Len(trace) :
                  trace[i].op \in {"router", "probe", "evaluate", "rerun",
                                   "links", "synth"} }

\* C36: a turn makes at most one router call, one probe, one evaluation, one
\* retried decide call and one streaming call, and at most one
\* link-selection call for each find_internet_articles it dispatches; its
\* position only moves forward through the statements of chat (the tool
\* loop only to its next tool call); and when every call returns or raises,
\* the stream ends and the caller keeps consuming, every turn reaches its
\* end or fails
C36_TurnTerminates ==
    /\ [] ( /\ \A op \in {"router", "probe", "evaluate", "rerun", "synth"} :
                  Cardinality(At(op)) <= 1
            /\ \A i \in At("links") :
                  /\ \E j \in At("find_internet_articles") :
                        j < i /\ trace[j].id = trace[i].id
                  /\ \A k \in At("links") : trace[k].id = trace[i].id => k = i
            /\ Cardinality(At("find_internet_articles")) <= Len(Calls)
            /\ Cardinality(ModelCalls) <= 5 + Len(Calls) )
    /\ [][ (InTurn /\ ~ NewTurn) =>
              /\ Stage(pc') >= Stage(pc)
              /\ (pc' = pc /\ idx' /= idx) => idx' > idx ]_vars
    /\ (InTurn ~> ~ InTurn)

\* a turn that made every model call it can make has reached its end
C36_Witness ==
    /\ pc = "done"
    /\ \A op \in {"router", "probe", "evaluate", "rerun", "synth"} :
          Cardinality(At(op)) = 1
    /\ Cardinality(At("links")) = 2
    /\ Cardinality(ModelCalls) = 7
    /\ yielded /= <<>>
====
